---- MODULE Spec2Model ----
(***************************************************************************)
(* DocAgent: the inference client (backend/agents/base.py, BytezAgent) and *)
(* the repository documentation job (backend/routes/repo_docs.py,          *)
(* process_repo_documentation), modelled as state machines.                *)
(*                                                                         *)
(* Text is a sequence of tokens; the token " " is whitespace.  Python's    *)
(* `x in s` on strings is containment of a contiguous token sequence.      *)
(***************************************************************************)
EXTENDS Naturals, Integers, Sequences, FiniteSets, TLC

\* ------------------------------------------------------------------------
\* Bounds
\* ------------------------------------------------------------------------
MaxMsgs == 2
MaxFiles == 3
MaxThrows == 2
MaxLen == 4

None == "None"

Range(s) == {s[i] : i \in 1..Len(s)}

\* ------------------------------------------------------------------------
\* Text helpers (Python str semantics on token sequences)
\* ------------------------------------------------------------------------

\* str.lower(): per-token lower-casing
LowerTok(t) ==
    CASE t = "Analyze" -> "analyze"
      [] t = "Diagram" -> "diagram"
      [] t = "Qwen" -> "qwen"
      [] t = "Code" -> "code"
      [] t = "Llama" -> "llama"
      [] t = "Instruct" -> "instruct"
      [] t = "Write" -> "write"
      [] t = "Verify" -> "verify"
      [] t = "Context" -> "context"
      [] t = "Documentation" -> "documentation"
      [] OTHER -> t

Lower(s) == [i \in 1..Len(s) |-> LowerTok(s[i])]

\* `kw in s` for strings: kw occurs as a contiguous run of s
Contains(s, kw) ==
    \E i \in 0..(Len(s) - Len(kw)) :
        \A k \in 1..Len(kw) : s[i + k] = kw[k]

\* bool(s) for a string: non-empty
Truthy(s) == Len(s) > 0

NL == "\n"
CR == "\r"

\* str.isspace() for a token
IsSpace(t) == t \in {" ", NL, CR}

RECURSIVE LStrip(_)
LStrip(s) == IF s # <<>> /\ IsSpace(Head(s)) THEN LStrip(Tail(s)) ELSE s

RECURSIVE RStrip(_)
RStrip(s) ==
    IF s # <<>> /\ IsSpace(s[Len(s)])
    THEN RStrip(SubSeq(s, 1, Len(s) - 1)) ELSE s

\* str.strip()
Strip(s) == RStrip(LStrip(s))

\* ------------------------------------------------------------------------
\* BytezAgent: inputs
\* ------------------------------------------------------------------------
Roles == {"system", "user"}

Contents ==
    { <<"hi">>, <<"Analyze", " ", "this">>, <<"write", " ", "Diagram">> }

Message == [role : Roles, content : Contents]

MessageLists == UNION { [1..n -> Message] : n \in 0..MaxMsgs }

ModelIds ==
    { <<"Qwen", "/", "Qwen", "2.5", "-", "Code", "r", "-", "Instruct">>,
      <<"bigcode", "/", "star", "code", "r">> }

CHAT_MODEL_KEYWORDS ==
    { <<"instruct">>, <<"chat">>, <<"llama">>, <<"qwen">>, <<"mistral">>,
      <<"gemma">>, <<"phi">>, <<"deepseek">> }

is_chat_model(mid) == \E kw \in CHAT_MODEL_KEYWORDS : Contains(Lower(mid), kw)

max_retries == 2

\* the wait computed from the attempt number without the +1
RateLimitWait_NoPlusOne(attempt) == 5 * attempt

\* line 88: wait = 5 * (attempt + 1)
RateLimitWait(attempt) == 5 * (attempt + 1)

\* The HTTP outcomes of one cloud request.  A 200 carries a JSON body
\* {error, output}; output is a dict with a content string, a bare string,
\* or some other JSON value.
CloudTexts == { <<>>, <<" ">>, <<"cloud", " ", "text">> }

CloudBodies ==
    [error : {FALSE}, kind : {"dict", "str"}, text : CloudTexts]
      \cup { [error |-> FALSE, kind |-> "other", text |-> <<>>],
             [error |-> TRUE, kind |-> "dict", text |-> <<"cloud", " ", "text">>] }

CloudFailures == {"429", "500", "timeout", "exception"}

\* BytezContent without the `if content:` test of line 104
BytezContent_NoContentTest(body) ==
    IF body.error THEN None
    ELSE IF body.kind = "dict" THEN body.text
    ELSE IF body.kind = "str" /\ Truthy(Strip(body.text))
         THEN body.text
    ELSE None

\* lines 96-111: the content a 200 response yields, or None
BytezContent(body) ==
    IF body.error THEN None
    ELSE IF body.kind = "dict"
         THEN (IF Truthy(body.text) THEN body.text ELSE None)
    ELSE IF body.kind = "str" /\ Truthy(Strip(body.text))
         THEN body.text
    ELSE None

\* lines 205-247: keyword sniffing on a user message
MockReader == <<"{", "complexity", "dependencies", "architecture_type", "documentation_needs", "}">>
MockSearcher == <<"{", "patterns", "best_practices", "concepts", "examples", "}">>
MockWriter == <<"{", "docstring", "markdown", "examples", "}">>
MockVerifier == <<"{", "approved", "quality_score", "evaluation", "feedback", "}">>
MockDiagram == <<"{", "diagram_type", "mermaid_code", "description", "}">>
MockDefault == <<"Generated", " ", "content">>

\* lines 207-211: content of the first message whose role is user, else ""
MockUserContent(msgs) ==
    IF \E i \in 1..Len(msgs) : msgs[i].role = "user"
    THEN msgs[CHOOSE i \in 1..Len(msgs) :
                 /\ msgs[i].role = "user"
                 /\ \A k \in 1..(i - 1) : msgs[k].role # "user"].content
    ELSE <<>>

mock_response(msgs) ==
    LET uc == Lower(MockUserContent(msgs))
        has(w) == Contains(uc, <<w>>)
    IN  IF has("analyze") \/ has("code") THEN MockReader
        ELSE IF has("context") \/ has("patterns") THEN MockSearcher
        ELSE IF has("documentation") \/ has("write") THEN MockWriter
        ELSE IF has("verify") \/ has("quality") THEN MockVerifier
        ELSE IF has("diagram") \/ has("mermaid") THEN MockDiagram
        ELSE MockDefault

\* lines 182-199: first mapping key (in dict order) contained in the id
OllamaMappings ==
    << <<<<"qwen">>, "qwen2.5-coder:7b">>,
       <<<<"llama">>, "llama3.2:3b">>,
       <<<<"star", "code", "r">>, "qwen2.5-coder:7b">>,
       <<<<"code", "llama">>, "codellama:7b">>,
       <<<<"deepseek">>, "deepseek-coder:6.7b">>,
       <<<<"mistral">>, "mistral:7b">>,
       <<<<"phi">>, "phi3:mini">>,
       <<<<"gemma">>, "gemma2:2b">> >>

resolve_ollama_model(mid) ==
    LET hits == {i \in 1..Len(OllamaMappings) :
                    Contains(Lower(mid), OllamaMappings[i][1])}
    IN  IF hits = {} THEN "llama3.2:3b"
        ELSE OllamaMappings[CHOOSE i \in hits : \A k \in hits : i <= k][2]

\* Installed model names reported by the local backend: a name is a
\* sequence <<base, suffix...>>
InstalledSets ==
    { {}, {<<"mistral:7b">>}, {<<"qwen2.5-coder:7b", "-q4">>},
      {<<"mistral:7b">>, <<"qwen2.5-coder:7b">>} }

\* lines 149-151
model_available(name, installed) ==
    <<name>> \in installed \/ \E n \in installed : Contains(n, <<name>>)

OllamaTexts == { <<>>, <<"local", " ", "text">> }

\* ------------------------------------------------------------------------
\* BytezAgent.generate: state
\* ------------------------------------------------------------------------
VARIABLES
    api_key,      \* whether BYTEZ_API_KEY is configured
    model_id,     \* self.model_id
    messages,     \* the message list of the call
    g_pc,         \* position of the generate call
    attempt,      \* loop variable of _call_bytez
    g_result,     \* the value generate returns (None until it returns)
    g_log         \* history: requests sent, responses received, sleeps

gvars == <<api_key, model_id, messages, g_pc, attempt, g_result, g_log>>

GenInit ==
    /\ api_key \in BOOLEAN
    /\ model_id \in ModelIds
    /\ messages \in MessageLists
    /\ g_pc = "generate"
    /\ attempt = 0
    /\ g_result = None
    /\ g_log = <<>>

GenInputs == <<api_key, model_id, messages>>

\* generate entering the cloud path without looking at the API key
GenerateEnter_IgnoresKey ==
    /\ g_pc = "generate"
    /\ g_pc' = "bytez_post"
    /\ UNCHANGED <<GenInputs, attempt, g_result, g_log>>

\* generate, lines 35-37: the cloud path is entered only with an API key
GenerateEnter ==
    /\ g_pc = "generate"
    /\ g_pc' = IF api_key THEN "bytez_post" ELSE "ollama_tags"
    /\ UNCHANGED <<GenInputs, attempt, g_result, g_log>>

\* _call_bytez, lines 56-84: send one request
BytezPost ==
    /\ g_pc = "bytez_post"
    /\ g_log' = Append(g_log, [ev |-> "cloud_post", attempt |-> attempt,
                               chat |-> is_chat_model(model_id)])
    /\ g_pc' = "bytez_resp"
    /\ UNCHANGED <<GenInputs, attempt, g_result>>

\* end of the loop body after a failed attempt, lines 120-124
BytezTail(log) ==
    IF attempt = 0 \/ attempt = max_retries
    THEN /\ g_pc' = "ollama_tags"
         /\ attempt' = attempt
         /\ g_log' = Append(log, [ev |-> "cloud_none"])
    ELSE /\ g_pc' = "bytez_post"
         /\ attempt' = attempt + 1
         /\ g_log' = log

\* _call_bytez, lines 86-94: HTTP 429
Bytez429 ==
    /\ g_pc = "bytez_resp"
    /\ LET log == Append(g_log, [ev |-> "cloud_resp", attempt |-> attempt,
                                 outcome |-> "429"])
       IN  IF attempt < max_retries
           THEN /\ g_pc' = "bytez_sleep"
                /\ g_log' = log
           ELSE /\ g_pc' = "ollama_tags"
                /\ g_log' = Append(log, [ev |-> "cloud_none"])
    /\ UNCHANGED <<GenInputs, attempt, g_result>>

\* asyncio.sleep(wait); continue, lines 91-92
BytezSleep ==
    /\ g_pc = "bytez_sleep"
    /\ g_log' = Append(g_log, [ev |-> "sleep", secs |-> RateLimitWait(attempt)])
    /\ attempt' = attempt + 1
    /\ g_pc' = "bytez_post"
    /\ UNCHANGED <<GenInputs, g_result>>

\* _call_bytez, lines 96-111: HTTP 200
Bytez200 ==
    /\ g_pc = "bytez_resp"
    /\ \E body \in CloudBodies :
         LET log == Append(g_log, [ev |-> "cloud_resp", attempt |-> attempt,
                                   outcome |-> "200", body |-> body])
             c == BytezContent(body)
         IN  IF c # None
             THEN /\ g_result' = c
                  /\ g_pc' = "done"
                  /\ g_log' = log
                  /\ attempt' = attempt
             ELSE /\ g_result' = g_result
                  /\ BytezTail(log)
    /\ UNCHANGED GenInputs

\* _call_bytez, lines 112-118: other status, timeout, exception
BytezFail ==
    /\ g_pc = "bytez_resp"
    /\ \E o \in CloudFailures \ {"429"} :
         BytezTail(Append(g_log, [ev |-> "cloud_resp", attempt |-> attempt,
                                  outcome |-> o]))
    /\ UNCHANGED <<GenInputs, g_result>>

\* OllamaTags without the installed-model check of lines 149-154
OllamaTags_SkipsInstalledCheck ==
    /\ g_pc = "ollama_tags"
    /\ \E probe \in {"unreachable", "non200", "ok"} :
       \E installed \in InstalledSets :
         /\ probe # "ok" => installed = {}
         /\ g_log' = Append(g_log, [ev |-> "tags_get", probe |-> probe,
                                    installed |-> installed])
         /\ g_pc' = IF probe = "ok" THEN "ollama_chat" ELSE "mock"
    /\ UNCHANGED <<GenInputs, attempt, g_result>>

\* _call_ollama, lines 133-154: liveness probe and installed-model check
OllamaTags ==
    /\ g_pc = "ollama_tags"
    /\ \E probe \in {"unreachable", "non200", "ok"} :
       \E installed \in InstalledSets :
         LET name == resolve_ollama_model(model_id)
             go == probe = "ok" /\ model_available(name, installed)
         IN  /\ probe # "ok" => installed = {}
             /\ g_log' = Append(g_log, [ev |-> "tags_get", probe |-> probe,
                                        installed |-> installed])
             /\ g_pc' = IF go THEN "ollama_chat" ELSE "mock"
    /\ UNCHANGED <<GenInputs, attempt, g_result>>

\* _call_ollama, lines 156-180: the chat request and its response
OllamaChat ==
    /\ g_pc = "ollama_chat"
    /\ \E o \in {"exception", "non200", "ok"} :
       \E text \in OllamaTexts :
         /\ o # "ok" => text = <<>>
         /\ g_log' = Append(g_log, [ev |-> "chat_post",
                                    model |-> resolve_ollama_model(model_id),
                                    outcome |-> o, text |-> text])
         /\ IF o = "ok" /\ Truthy(text)
            THEN g_result' = text /\ g_pc' = "done"
            ELSE g_result' = g_result /\ g_pc' = "mock"
    /\ UNCHANGED <<GenInputs, attempt>>

\* generate, lines 47-49
MockFallback ==
    /\ g_pc = "mock"
    /\ g_log' = Append(g_log, [ev |-> "mock"])
    /\ g_result' = mock_response(messages)
    /\ g_pc' = "done"
    /\ UNCHANGED <<GenInputs, attempt>>

GenNext ==
    \/ GenerateEnter
    \/ BytezPost
    \/ Bytez429
    \/ BytezSleep
    \/ Bytez200
    \/ BytezFail
    \/ OllamaTags
    \/ OllamaChat
    \/ MockFallback

\* ------------------------------------------------------------------------
\* Repository documentation job (routes/repo_docs.py): inputs
\* ------------------------------------------------------------------------
JobIds == {1, 2}

\* line 68
agents == <<"reader", "searcher", "writer", "verifier", "diagram">>

AgentNames == Range(agents)

\* str(agent_err) of an exception escaping orchestrator.run_agent
ErrTexts == {"ValueError: boom"}

\* One entry of the `files` argument.  dict = FALSE is an entry that is not
\* a mapping (routes/webhooks.py hands the fetcher's result dict to the
\* task, whose iteration yields its string keys): file_info.get raises.
FileLists(j) ==
    UNION { { [i \in 1..n |-> [path |-> <<j, i>>, dict |-> d[i]]] :
                d \in [1..n -> BOOLEAN] } : n \in 1..MaxFiles }

NoOutput == [by |-> "none", of |-> <<0, 0>>]

\* a sub-record that has not been written yet reads as "pending" (line 609)
PendingRec == [status |-> "pending", error |-> "", output |-> NoOutput]

\* round((file_idx / total_files) * 100, 2), in hundredths of a percent
ProgressOf(file_idx, total_files) ==
    IF total_files > 0
    THEN (2 * 10000 * file_idx + total_files) \div (2 * total_files)
    ELSE 0

VARIABLES
    active_doc_jobs,  \* the job registry: job id -> job record
    files,            \* argument of the processing task of each job
    pc,               \* position of the processing task of each job
    file_idx,         \* loop variable of the file loop (0-based)
    agent_idx,        \* position in `agents` of the agent loop (1-based)
    agent_outputs,    \* the task's agent_outputs dict of the current file
    exc,              \* str(exc) of the exception caught at line 315
    db_jobs,          \* status of the db.jobs record an outside caller cancels
    repo_documentation, \* job ids persisted to db.repo_documentation
    requests,         \* job ids not submitted yet
    thrown,           \* history: <<file index, agent, text>> of every raise
    invoked,          \* history: <<file index, agent>> of every run_agent call
    events,           \* history: the broadcasts of each job, in order
    cancel_at,        \* history: file index in progress when cancelled, or -1
    assembled         \* history: the file_results each assemble_sections call got

jvars == <<active_doc_jobs, files, pc, file_idx, agent_idx, agent_outputs, exc,
           db_jobs, repo_documentation, requests, thrown, invoked, events,
           cancel_at, assembled>>

Registered == DOMAIN active_doc_jobs

\* the registry is empty when the server starts; db.repo_documentation
\* holds the jobs `stored` of earlier runs
JobInitWith(reqs, stored) ==
    /\ active_doc_jobs = <<>>
    /\ files = [j \in JobIds |-> <<>>]
    /\ pc = [j \in JobIds |-> "none"]
    /\ file_idx = [j \in JobIds |-> 0]
    /\ agent_idx = [j \in JobIds |-> 1]
    /\ agent_outputs = [j \in JobIds |-> [a \in AgentNames |-> NoOutput]]
    /\ exc = [j \in JobIds |-> ""]
    /\ db_jobs = [j \in JobIds |-> "queued"]
    /\ repo_documentation = stored
    /\ requests = reqs
    /\ thrown = [j \in JobIds |-> {}]
    /\ invoked = [j \in JobIds |-> <<>>]
    /\ events = [j \in JobIds |-> <<>>]
    /\ cancel_at = [j \in JobIds |-> -1]
    /\ assembled = [j \in JobIds |-> <<>>]

JobInit(reqs) == JobInitWith(reqs, {})

\* the job record of job j with field f set to v
SetJob(j, f, v) == [active_doc_jobs EXCEPT ![j][f] = v]

Job(j) == active_doc_jobs[j]

\* ws_manager.broadcast: the event reaches the subscribers of the job
Broadcast(j, e) == events' = [events EXCEPT ![j] = Append(@, e)]

\* start_repo_documentation, lines 545-564: register the job under its id
\* with a file list drawn from `lists`, schedule the task
StartJob(j, lists) ==
    /\ j \in requests
    /\ \E fl \in lists :
         /\ files' = [files EXCEPT ![j] = fl]
         /\ active_doc_jobs' = active_doc_jobs @@
              (j :> [status |-> "starting",
                     total_files |-> Len(fl),
                     files_completed |-> 0,
                     current_file_index |-> 0,
                     progress |-> 0,
                     file_results |-> <<>>,
                     error |-> None,
                     sections |-> "unset",
                     completed_at |-> FALSE])
    /\ requests' = requests \ {j}
    /\ pc' = [pc EXCEPT ![j] = "start"]
    /\ UNCHANGED <<file_idx, agent_idx, agent_outputs, exc, db_jobs,
                   repo_documentation, thrown, invoked, events, cancel_at,
                   assembled>>

start_repo_documentation(j) == StartJob(j, FileLists(j))

\* ProcessStart of a task that marks every registered job as processing
ProcessStart_AllJobs(j) ==
    /\ pc[j] = "start"
    /\ j \in Registered
    /\ active_doc_jobs' =
         [k \in Registered |->
            IF k = j
            THEN [active_doc_jobs[k] EXCEPT !.total_files = Len(files[j]),
                                            !.status = "processing"]
            ELSE [active_doc_jobs[k] EXCEPT !.status = "processing"]]
    /\ file_idx' = [file_idx EXCEPT ![j] = 0]
    /\ pc' = [pc EXCEPT ![j] = "file_begin"]
    /\ UNCHANGED <<files, agent_idx, agent_outputs, exc, db_jobs,
                   repo_documentation, requests, thrown, invoked, events,
                   cancel_at, assembled>>

\* process_repo_documentation, lines 55-68
ProcessStart(j) ==
    /\ pc[j] = "start"
    /\ j \in Registered
    /\ active_doc_jobs' =
         [active_doc_jobs EXCEPT ![j].total_files = Len(files[j]),
                                 ![j].status = "processing"]
    /\ file_idx' = [file_idx EXCEPT ![j] = 0]
    /\ pc' = [pc EXCEPT ![j] = "file_begin"]
    /\ UNCHANGED <<files, agent_idx, agent_outputs, exc, db_jobs,
                   repo_documentation, requests, thrown, invoked, events,
                   cancel_at, assembled>>

\* lines 71-87: the next file of the loop, or the end of the loop
FileBegin(j) ==
    /\ pc[j] = "file_begin"
    /\ LET i == file_idx[j]
           total == Job(j).total_files
       IN  IF i >= Len(files[j])
           THEN /\ pc' = [pc EXCEPT ![j] = "bcast_synth"]
                /\ UNCHANGED <<active_doc_jobs, agent_outputs, exc>>
           ELSE IF ~files[j][i + 1].dict
           THEN \* line 72: file_info.get raises AttributeError
                /\ pc' = [pc EXCEPT ![j] = "except"]
                /\ exc' = [exc EXCEPT ![j] = "AttributeError"]
                /\ UNCHANGED <<active_doc_jobs, agent_outputs>>
           ELSE /\ active_doc_jobs' =
                     [active_doc_jobs EXCEPT
                        ![j].current_file_index = i,
                        ![j].files_completed = i,
                        ![j].progress = ProgressOf(i, total),
                        ![j].file_results =
                            Append(@, [path |-> files[j][i + 1].path,
                                       status |-> "processing",
                                       agents |-> [a \in AgentNames |-> PendingRec],
                                       documentation |-> NoOutput])]
                /\ agent_outputs' =
                     [agent_outputs EXCEPT ![j] = [a \in AgentNames |-> NoOutput]]
                /\ pc' = [pc EXCEPT ![j] = "bcast_file"]
                /\ exc' = exc
    /\ UNCHANGED <<files, file_idx, agent_idx, db_jobs, repo_documentation,
                   requests, thrown, invoked, events, cancel_at, assembled>>

\* lines 90-100: file-level progress event
BroadcastFile(j) ==
    /\ pc[j] = "bcast_file"
    /\ Broadcast(j, [type |-> "repo_doc_progress", file_index |-> file_idx[j],
                     agent |-> "", status |-> "processing_file"])
    /\ agent_idx' = [agent_idx EXCEPT ![j] = 1]
    /\ pc' = [pc EXCEPT ![j] = "agent_begin"]
    /\ UNCHANGED <<active_doc_jobs, files, file_idx, agent_outputs, exc,
                   db_jobs, repo_documentation, requests, thrown, invoked,
                   cancel_at, assembled>>

\* the job record with the sub-record of the current file and agent set to r
SetAgentRec(j, r) ==
    [active_doc_jobs EXCEPT
       ![j].file_results[file_idx[j] + 1].agents[agents[agent_idx[j]]] = r]

CurAgentRec(j) ==
    Job(j).file_results[file_idx[j] + 1].agents[agents[agent_idx[j]]]

\* AgentBegin that leaves the sub-record as it is
AgentBegin_NoUpdate(j) ==
    /\ pc[j] = "agent_begin"
    /\ pc' = [pc EXCEPT ![j] = "bcast_running"]
    /\ UNCHANGED <<active_doc_jobs, files, file_idx, agent_idx, agent_outputs,
                   exc, db_jobs, repo_documentation, requests, thrown, invoked,
                   events, cancel_at, assembled>>

\* line 105: the sub-record is created as running
AgentBegin(j) ==
    /\ pc[j] = "agent_begin"
    /\ active_doc_jobs' =
         SetAgentRec(j, [status |-> "running", error |-> "", output |-> NoOutput])
    /\ pc' = [pc EXCEPT ![j] = "bcast_running"]
    /\ UNCHANGED <<files, file_idx, agent_idx, agent_outputs, exc, db_jobs,
                   repo_documentation, requests, thrown, invoked, events,
                   cancel_at, assembled>>

\* lines 107-118
BroadcastRunning(j) ==
    /\ pc[j] = "bcast_running"
    /\ Broadcast(j, [type |-> "repo_doc_agent_progress",
                     file_index |-> file_idx[j],
                     agent |-> agents[agent_idx[j]], status |-> "running"])
    /\ pc' = [pc EXCEPT ![j] = "invoke"]
    /\ UNCHANGED <<active_doc_jobs, files, file_idx, agent_idx, agent_outputs,
                   exc, db_jobs, repo_documentation, requests, thrown, invoked,
                   cancel_at, assembled>>

\* line 121: the call of orchestrator.run_agent; the task is suspended in it
InvokeAgent(j) ==
    /\ pc[j] = "invoke"
    /\ invoked' = [invoked EXCEPT ![j] =
                     Append(@, <<file_idx[j], agents[agent_idx[j]]>>)]
    /\ pc' = [pc EXCEPT ![j] = "in_agent"]
    /\ UNCHANGED <<active_doc_jobs, files, file_idx, agent_idx, agent_outputs,
                   exc, db_jobs, repo_documentation, requests, thrown, events,
                   cancel_at, assembled>>

\* AgentCompleted without the sub-record update of lines 130-136
AgentCompleted_NoUpdate(j) ==
    /\ pc[j] = "in_agent"
    /\ LET a == agents[agent_idx[j]]
           out == [by |-> a, of |-> files[j][file_idx[j] + 1].path]
       IN  agent_outputs' = [agent_outputs EXCEPT ![j][a] = out]
    /\ pc' = [pc EXCEPT ![j] = "bcast_agent"]
    /\ UNCHANGED <<active_doc_jobs, files, file_idx, agent_idx, exc, db_jobs,
                   repo_documentation, requests, thrown, invoked, events,
                   cancel_at, assembled>>

\* lines 129-136: run_agent returned an output
AgentCompleted(j) ==
    /\ pc[j] = "in_agent"
    /\ LET a == agents[agent_idx[j]]
           out == [by |-> a, of |-> files[j][file_idx[j] + 1].path]
       IN  /\ agent_outputs' = [agent_outputs EXCEPT ![j][a] = out]
           /\ active_doc_jobs' =
                SetAgentRec(j, [status |-> "completed", error |-> "",
                                output |-> out])
    /\ pc' = [pc EXCEPT ![j] = "bcast_agent"]
    /\ UNCHANGED <<files, file_idx, agent_idx, exc, db_jobs,
                   repo_documentation, requests, thrown, invoked, events,
                   cancel_at, assembled>>

\* AgentFailed without the inner try: the exception reaches line 315
AgentFailed_Propagates(j) ==
    /\ pc[j] = "in_agent"
    /\ Cardinality(thrown[j]) < MaxThrows
    /\ \E e \in ErrTexts :
         /\ exc' = [exc EXCEPT ![j] = e]
         /\ thrown' = [thrown EXCEPT ![j] =
                         @ \cup {<<file_idx[j], agents[agent_idx[j]], e>>}]
    /\ pc' = [pc EXCEPT ![j] = "except"]
    /\ UNCHANGED <<active_doc_jobs, files, file_idx, agent_idx, agent_outputs,
                   db_jobs, repo_documentation, requests, invoked, events,
                   cancel_at, assembled>>

\* lines 151-159: run_agent raised
AgentFailed(j) ==
    /\ pc[j] = "in_agent"
    /\ Cardinality(thrown[j]) < MaxThrows
    /\ \E e \in ErrTexts :
         /\ active_doc_jobs' =
              SetAgentRec(j, [status |-> "error", error |-> e,
                              output |-> NoOutput])
         /\ thrown' = [thrown EXCEPT ![j] =
                         @ \cup {<<file_idx[j], agents[agent_idx[j]], e>>}]
    /\ pc' = [pc EXCEPT ![j] = "bcast_agent"]
    /\ UNCHANGED <<files, file_idx, agent_idx, agent_outputs, exc, db_jobs,
                   repo_documentation, requests, invoked, events, cancel_at,
                   assembled>>

\* BroadcastAgentDone of a loop that runs an agent again after its error
BroadcastAgentDone_RetriesError(j) ==
    /\ pc[j] = "bcast_agent"
    /\ Broadcast(j, [type |-> "repo_doc_agent_progress",
                     file_index |-> file_idx[j],
                     agent |-> agents[agent_idx[j]],
                     status |-> CurAgentRec(j).status])
    /\ IF CurAgentRec(j).status = "error"
       THEN /\ agent_idx' = agent_idx
            /\ pc' = [pc EXCEPT ![j] = "agent_begin"]
       ELSE IF agent_idx[j] < Len(agents)
       THEN /\ agent_idx' = [agent_idx EXCEPT ![j] = @ + 1]
            /\ pc' = [pc EXCEPT ![j] = "agent_begin"]
       ELSE /\ agent_idx' = agent_idx
            /\ pc' = [pc EXCEPT ![j] = "file_end"]
    /\ UNCHANGED <<active_doc_jobs, files, file_idx, agent_outputs, exc,
                   db_jobs, repo_documentation, requests, thrown, invoked,
                   cancel_at, assembled>>

\* BroadcastAgentDone of a loop that leaves the remaining agents of a file
\* out after an error
BroadcastAgentDone_StopsOnError(j) ==
    /\ pc[j] = "bcast_agent"
    /\ Broadcast(j, [type |-> "repo_doc_agent_progress",
                     file_index |-> file_idx[j],
                     agent |-> agents[agent_idx[j]],
                     status |-> CurAgentRec(j).status])
    /\ IF agent_idx[j] < Len(agents) /\ CurAgentRec(j).status # "error"
       THEN /\ agent_idx' = [agent_idx EXCEPT ![j] = @ + 1]
            /\ pc' = [pc EXCEPT ![j] = "agent_begin"]
       ELSE /\ agent_idx' = agent_idx
            /\ pc' = [pc EXCEPT ![j] = "file_end"]
    /\ UNCHANGED <<active_doc_jobs, files, file_idx, agent_outputs, exc,
                   db_jobs, repo_documentation, requests, thrown, invoked,
                   cancel_at, assembled>>

\* lines 138-149 and 160-172: the completed-or-error event, then the next
\* agent of the loop
BroadcastAgentDone(j) ==
    /\ pc[j] = "bcast_agent"
    /\ Broadcast(j, [type |-> "repo_doc_agent_progress",
                     file_index |-> file_idx[j],
                     agent |-> agents[agent_idx[j]],
                     status |-> CurAgentRec(j).status])
    /\ IF agent_idx[j] < Len(agents)
       THEN /\ agent_idx' = [agent_idx EXCEPT ![j] = @ + 1]
            /\ pc' = [pc EXCEPT ![j] = "agent_begin"]
       ELSE /\ agent_idx' = agent_idx
            /\ pc' = [pc EXCEPT ![j] = "file_end"]
    /\ UNCHANGED <<active_doc_jobs, files, file_idx, agent_outputs, exc,
                   db_jobs, repo_documentation, requests, thrown, invoked,
                   cancel_at, assembled>>

\* FileEnd without line 177: the file's status stays processing
FileEnd_LeavesProcessing(j) ==
    /\ pc[j] = "file_end"
    /\ LET w == agent_outputs[j]["writer"]
           d == agent_outputs[j]["diagram"]
       IN  active_doc_jobs' =
             [active_doc_jobs EXCEPT
                ![j].file_results[file_idx[j] + 1].documentation =
                    IF w # NoOutput THEN w ELSE d]
    /\ file_idx' = [file_idx EXCEPT ![j] = @ + 1]
    /\ pc' = [pc EXCEPT ![j] = "file_begin"]
    /\ UNCHANGED <<files, agent_idx, agent_outputs, exc, db_jobs,
                   repo_documentation, requests, thrown, invoked, events,
                   cancel_at, assembled>>

\* lines 175-177
FileEnd(j) ==
    /\ pc[j] = "file_end"
    /\ LET w == agent_outputs[j]["writer"]
           d == agent_outputs[j]["diagram"]
       IN  active_doc_jobs' =
             [active_doc_jobs EXCEPT
                ![j].file_results[file_idx[j] + 1].documentation =
                    IF w # NoOutput THEN w ELSE d,
                ![j].file_results[file_idx[j] + 1].status = "completed"]
    /\ file_idx' = [file_idx EXCEPT ![j] = @ + 1]
    /\ pc' = [pc EXCEPT ![j] = "file_begin"]
    /\ UNCHANGED <<files, agent_idx, agent_outputs, exc, db_jobs,
                   repo_documentation, requests, thrown, invoked, events,
                   cancel_at, assembled>>

\* lines 180-189
BroadcastSynthesizing(j) ==
    /\ pc[j] = "bcast_synth"
    /\ Broadcast(j, [type |-> "repo_doc_progress", file_index |-> -1,
                     agent |-> "", status |-> "synthesizing"])
    /\ pc' = [pc EXCEPT ![j] = "assemble"]
    /\ UNCHANGED <<active_doc_jobs, files, file_idx, agent_idx, agent_outputs,
                   exc, db_jobs, repo_documentation, requests, thrown, invoked,
                   cancel_at, assembled>>

\* AssembleAndComplete with a failure of assemble_sections that is not caught
\* at line 202 and reaches line 315
AssembleAndComplete_FailureRaises(j) ==
    /\ pc[j] = "assemble"
    /\ assembled' = [assembled EXCEPT ![j] = Append(@, Job(j).file_results)]
    /\ \E ok \in BOOLEAN :
         IF ok
         THEN /\ active_doc_jobs' =
                   [active_doc_jobs EXCEPT
                      ![j].sections = "assembled",
                      ![j].status = "completed",
                      ![j].files_completed = Job(j).total_files,
                      ![j].progress = 10000,
                      ![j].completed_at = TRUE]
              /\ pc' = [pc EXCEPT ![j] = "persist"]
              /\ exc' = exc
         ELSE /\ exc' = [exc EXCEPT ![j] = "assembly failed"]
              /\ pc' = [pc EXCEPT ![j] = "except"]
              /\ active_doc_jobs' = active_doc_jobs
    /\ UNCHANGED <<files, file_idx, agent_idx, agent_outputs, db_jobs,
                   repo_documentation, requests, thrown, invoked, events,
                   cancel_at>>

\* lines 191-209: assemble_sections is called with job["file_results"] (its
\* failure is swallowed at line 202 and leaves an empty section list), then
\* the job is marked completed
AssembleAndComplete(j) ==
    /\ pc[j] = "assemble"
    /\ assembled' = [assembled EXCEPT ![j] = Append(@, Job(j).file_results)]
    /\ \E ok \in BOOLEAN :
         active_doc_jobs' =
           [active_doc_jobs EXCEPT
              ![j].sections = IF ok THEN "assembled" ELSE "empty",
              ![j].status = "completed",
              ![j].files_completed = Job(j).total_files,
              ![j].progress = 10000,
              ![j].completed_at = TRUE]
    /\ pc' = [pc EXCEPT ![j] = "persist"]
    /\ UNCHANGED <<files, file_idx, agent_idx, agent_outputs, exc, db_jobs,
                   repo_documentation, requests, thrown, invoked, events,
                   cancel_at>>

\* lines 211-303: persistence; every failure is caught and logged
Persist(j) ==
    /\ pc[j] = "persist"
    /\ \E ok \in BOOLEAN :
         repo_documentation' =
           IF ok THEN repo_documentation \cup {j} ELSE repo_documentation
    /\ pc' = [pc EXCEPT ![j] = "bcast_completed"]
    /\ UNCHANGED <<active_doc_jobs, files, file_idx, agent_idx, agent_outputs,
                   exc, db_jobs, requests, thrown, invoked, events, cancel_at,
                   assembled>>

\* BroadcastCompleted with a broadcast that raises into line 315
BroadcastCompleted_Raises(j) ==
    /\ pc[j] = "bcast_completed"
    /\ exc' = [exc EXCEPT ![j] = "send failed"]
    /\ pc' = [pc EXCEPT ![j] = "except"]
    /\ UNCHANGED <<active_doc_jobs, files, file_idx, agent_idx, agent_outputs,
                   db_jobs, repo_documentation, requests, thrown, invoked,
                   events, cancel_at, assembled>>

\* lines 305-313
BroadcastCompleted(j) ==
    /\ pc[j] = "bcast_completed"
    /\ Broadcast(j, [type |-> "repo_doc_progress", file_index |-> -1,
                     agent |-> "", status |-> "completed"])
    /\ pc' = [pc EXCEPT ![j] = "done"]
    /\ UNCHANGED <<active_doc_jobs, files, file_idx, agent_idx, agent_outputs,
                   exc, db_jobs, repo_documentation, requests, thrown, invoked,
                   cancel_at, assembled>>

\* JobError that also resets the accumulated results
JobError_DropsResults(j) ==
    /\ pc[j] = "except"
    /\ active_doc_jobs' =
         [active_doc_jobs EXCEPT ![j].status = "error", ![j].error = exc[j],
                                 ![j].file_results = <<>>]
    /\ pc' = [pc EXCEPT ![j] = "bcast_error"]
    /\ UNCHANGED <<files, file_idx, agent_idx, agent_outputs, exc, db_jobs,
                   repo_documentation, requests, thrown, invoked, events,
                   cancel_at, assembled>>

\* lines 315-318: an exception escaped the file loop
JobError(j) ==
    /\ pc[j] = "except"
    /\ active_doc_jobs' =
         [active_doc_jobs EXCEPT ![j].status = "error", ![j].error = exc[j]]
    /\ pc' = [pc EXCEPT ![j] = "bcast_error"]
    /\ UNCHANGED <<files, file_idx, agent_idx, agent_outputs, exc, db_jobs,
                   repo_documentation, requests, thrown, invoked, events,
                   cancel_at, assembled>>

\* lines 319-326
BroadcastError(j) ==
    /\ pc[j] = "bcast_error"
    /\ Broadcast(j, [type |-> "repo_doc_progress", file_index |-> -1,
                     agent |-> "", status |-> "error"])
    /\ pc' = [pc EXCEPT ![j] = "done"]
    /\ UNCHANGED <<active_doc_jobs, files, file_idx, agent_idx, agent_outputs,
                   exc, db_jobs, repo_documentation, requests, thrown, invoked,
                   cancel_at, assembled>>

\* routes/jobs.py cancel_job, lines 59-84: an outside caller marks the job
\* cancelled in db.jobs; the record is all it touches
cancel_job(j) ==
    /\ j \in Registered
    /\ db_jobs[j] \in {"queued", "processing"}
    /\ db_jobs' = [db_jobs EXCEPT ![j] = "cancelled"]
    /\ cancel_at' = [cancel_at EXCEPT ![j] =
                       IF /\ Job(j).file_results # <<>>
                          /\ Job(j).file_results[Len(Job(j).file_results)].status
                               = "processing"
                       THEN Len(Job(j).file_results) - 1
                       ELSE -1]
    /\ UNCHANGED <<active_doc_jobs, files, pc, file_idx, agent_idx,
                   agent_outputs, exc, repo_documentation, requests, thrown,
                   invoked, events, assembled>>

JobNext ==
    \E j \in JobIds :
        \/ start_repo_documentation(j)
        \/ ProcessStart(j)
        \/ FileBegin(j)
        \/ BroadcastFile(j)
        \/ AgentBegin(j)
        \/ BroadcastRunning(j)
        \/ InvokeAgent(j)
        \/ AgentCompleted(j)
        \/ AgentFailed(j)
        \/ BroadcastAgentDone(j)
        \/ FileEnd(j)
        \/ BroadcastSynthesizing(j)
        \/ AssembleAndComplete(j)
        \/ Persist(j)
        \/ BroadcastCompleted(j)
        \/ JobError(j)
        \/ BroadcastError(j)
        \/ cancel_job(j)

\* the file lists of jobs that run side by side
MaxPairFiles == 1

PairFileLists(j) ==
    UNION { { [i \in 1..n |-> [path |-> <<j, i>>, dict |-> d[i]]] :
                d \in [1..n -> BOOLEAN] } : n \in 1..MaxPairFiles }

\* run_agent raises in at most one call of a job
AgentFailedOnce(j) == thrown[j] = {} /\ AgentFailed(j)

\* the steps of the tasks of several jobs, interleaved at their
\* suspension points
JobPairNext ==
    \E j \in JobIds :
        \/ StartJob(j, PairFileLists(j))
        \/ ProcessStart(j)
        \/ FileBegin(j)
        \/ BroadcastFile(j)
        \/ AgentBegin(j)
        \/ BroadcastRunning(j)
        \/ InvokeAgent(j)
        \/ AgentCompleted(j)
        \/ AgentFailedOnce(j)
        \/ BroadcastAgentDone(j)
        \/ FileEnd(j)
        \/ BroadcastSynthesizing(j)
        \/ AssembleAndComplete(j)
        \/ Persist(j)
        \/ BroadcastCompleted(j)
        \/ JobError(j)
        \/ BroadcastError(j)

\* ------------------------------------------------------------------------
\* Status query of a repository job (routes/repo_docs.py get_job_status)
\* ------------------------------------------------------------------------
\* round(x) of Python for x = 100 * c / t: to the nearest integer, a tie
\* to the even one
RoundPercent(c, t) ==
    LET q == (100 * c) \div t
        r == (100 * c) % t
    IN  IF 2 * r < t THEN q
        ELSE IF 2 * r > t THEN q + 1
        ELSE IF q % 2 = 0 THEN q ELSE q + 1

\* lines 600-626: the summary of one agent over the file results
AgentSummary(job, ag) ==
    LET total == IF job.total_files > 1 THEN job.total_files ELSE 1
        fr == job.file_results
        completed_count ==
            Cardinality({i \in 1..Len(fr) :
                            fr[i].agents[ag].status \in {"completed", "error"}})
        is_running == \E i \in 1..Len(fr) : fr[i].agents[ag].status = "running"
    IN  IF completed_count >= total
        THEN [status |-> "completed", progress |-> 100]
        ELSE IF is_running \/ completed_count > 0
        THEN [status |-> "processing",
              progress |-> RoundPercent(completed_count, total)]
        ELSE [status |-> "pending", progress |-> 0]

\* lines 593-651: the reply built from a registry entry; progress and
\* overall_progress are in hundredths of a percent, as job.progress is
StatusReply(job) ==
    LET summary == [ag \in AgentNames |-> AgentSummary(job, ag)]
        busy == {k \in 1..Len(agents) : summary[agents[k]].status = "processing"}
    IN  [code |-> 200,
         source |-> "registry",
         status |-> job.status,
         total_files |-> job.total_files,
         files_processed |-> job.files_completed,
         files_completed |-> job.files_completed,
         overall_progress |->
             IF job.status = "completed" THEN 10000 ELSE job.progress,
         progress |-> job.progress,
         agents |->
             IF job.status = "completed"
             THEN [ag \in AgentNames |->
                      [status |-> "completed", progress |-> 100]]
             ELSE summary,
         current_agent |->
             IF busy = {} THEN None
             ELSE agents[CHOOSE k \in busy : \A m \in busy : k <= m]]

NoReply == [code |-> 0]

NotFound == [code |-> 404]

\* lines 585-588: the document found in db.repo_documentation
StoreReply(j) == [code |-> 200, source |-> "store", job_id |-> j]

VARIABLES
    q_pc,     \* position of the get_job_status handler
    q_job,    \* the job id of the request
    q_reply   \* the response of the handler

qvars == <<q_pc, q_job, q_reply>>

StatusIdle ==
    /\ q_pc = "idle"
    /\ q_job = 0
    /\ q_reply = NoReply

\* StatusRequest with a registry lookup that creates the missing entry
StatusRequest_CreatesEntry(j) ==
    /\ q_pc = "idle"
    /\ q_job' = j
    /\ IF j \in Registered
       THEN /\ q_reply' = StatusReply(Job(j))
            /\ q_pc' = "replied"
            /\ active_doc_jobs' = active_doc_jobs
       ELSE /\ q_reply' = NoReply
            /\ q_pc' = "find"
            /\ active_doc_jobs' = active_doc_jobs @@
                 (j :> [status |-> "starting",
                        total_files |-> 0,
                        files_completed |-> 0,
                        current_file_index |-> 0,
                        progress |-> 0,
                        file_results |-> <<>>,
                        error |-> None,
                        sections |-> "unset",
                        completed_at |-> FALSE])
    /\ UNCHANGED <<files, pc, file_idx, agent_idx, agent_outputs, exc,
                   db_jobs, repo_documentation, requests, thrown, invoked,
                   events, cancel_at, assembled>>

\* lines 580-582 and 593-651: the registry lookup; a job that is in the
\* registry is answered from it, for any other the store is asked
StatusRequest(j) ==
    /\ q_pc = "idle"
    /\ q_job' = j
    /\ IF j \in Registered
       THEN /\ q_reply' = StatusReply(Job(j))
            /\ q_pc' = "replied"
       ELSE /\ q_reply' = NoReply
            /\ q_pc' = "find"
    /\ UNCHANGED jvars

\* lines 583-591: db.repo_documentation.find_one returns the document, or
\* nothing, or raises (swallowed at line 589); without a document: 404
StatusFind ==
    /\ q_pc = "find"
    /\ \E ok \in BOOLEAN :
         q_reply' = IF ok /\ q_job \in repo_documentation
                    THEN StoreReply(q_job)
                    ELSE NotFound
    /\ q_pc' = "replied"
    /\ UNCHANGED <<q_job, jvars>>

\* the response is sent
StatusSent ==
    /\ q_pc = "replied"
    /\ q_pc' = "idle"
    /\ q_job' = 0
    /\ q_reply' = NoReply
    /\ UNCHANGED jvars

\* one job being processed while status queries for any job id arrive
StatusNext ==
    \/ JobPairNext /\ UNCHANGED qvars
    \/ \E j \in JobIds : StatusRequest(j)
    \/ StatusFind
    \/ StatusSent

\* ------------------------------------------------------------------------
\* Single-snippet job (routes/documentation.py run_documentation_job) and
\* its cancellation (routes/jobs.py cancel_job)
\* ------------------------------------------------------------------------
MaxCancels == 2

\* the progress values written through update_job_progress: line 70, then
\* the callback of generate_documentation (orchestrator.py lines 48-73)
ProgressSteps == <<10, 10, 30, 50, 70, 90, 100>>

\* the stage texts written with them
StageTexts ==
    <<"parsing_source", "Analyzing code structure...", "Gathering context...",
      "Writing documentation...", "Verifying quality...",
      "Generating diagrams...", "Complete!">>

\* no record in db.jobs
AbsentJob == [status |-> "absent", stage |-> "", progress |-> 0]

VARIABLES
    s_job,     \* the record of the job in db.jobs
    t_pc,      \* position of the background task
    t_step,    \* index in ProgressSteps of the next progress update
    c_pc,      \* position of the cancel_job handler
    c_reply,   \* HTTP status of the response of cancel_job
    c_count    \* number of cancel requests received

svars == <<s_job, t_pc, t_step, c_pc, c_reply, c_count>>

SnippetIdle ==
    /\ s_job = AbsentJob
    /\ t_pc = "none"
    /\ t_step = 0
    /\ c_pc = "idle"
    /\ c_reply = 0
    /\ c_count = 0

\* documentation.py lines 290-317: the job record is inserted as queued and
\* the background task is scheduled
CreateJob ==
    /\ s_job = AbsentJob
    /\ s_job' = [status |-> "queued", stage |-> "queued", progress |-> 0]
    /\ t_pc' = "start"
    /\ UNCHANGED <<t_step, c_pc, c_reply, c_count>>

\* lines 58-68: the first update of the task; a database error reaches
\* line 129
TaskSetProcessing ==
    /\ t_pc = "start"
    /\ \E ok \in BOOLEAN :
         IF ok
         THEN /\ s_job' = [s_job EXCEPT !.status = "processing",
                                        !.stage = "initializing",
                                        !.progress = 0]
              /\ t_pc' = "progress"
              /\ t_step' = 1
         ELSE /\ s_job' = s_job
              /\ t_pc' = "except"
              /\ t_step' = t_step
    /\ UNCHANGED <<c_pc, c_reply, c_count>>

\* update_job_progress, lines 28-47: progress and stage are set, the status
\* is not.  The first call is made by the task (line 70), the others by
\* generate_documentation, which catches what they raise and returns; it
\* also returns early when an agent stage raises.
TaskProgress ==
    /\ t_pc = "progress"
    /\ \E outcome \in {"ok", "db_error", "stage_raises"} :
         /\ outcome = "stage_raises" => t_step > 2
         /\ IF outcome = "ok"
            THEN /\ s_job' = [s_job EXCEPT !.progress = ProgressSteps[t_step],
                                           !.stage = StageTexts[t_step]]
                 /\ IF t_step < Len(ProgressSteps)
                    THEN t_step' = t_step + 1 /\ t_pc' = "progress"
                    ELSE t_step' = t_step /\ t_pc' = "insert"
            ELSE /\ s_job' = s_job
                 /\ t_step' = t_step
                 /\ t_pc' = IF t_step = 1 THEN "except" ELSE "insert"
    /\ UNCHANGED <<c_pc, c_reply, c_count>>

\* lines 79-106: the documentation record is inserted
TaskInsertDoc ==
    /\ t_pc = "insert"
    /\ \E ok \in BOOLEAN : t_pc' = IF ok THEN "complete" ELSE "except"
    /\ UNCHANGED <<s_job, t_step, c_pc, c_reply, c_count>>

\* lines 108-120: the job is marked completed, whatever its status is
TaskSetCompleted ==
    /\ t_pc = "complete"
    /\ \E ok \in BOOLEAN :
         IF ok
         THEN /\ s_job' = [s_job EXCEPT !.status = "completed",
                                        !.progress = 100,
                                        !.stage = "done"]
              /\ t_pc' = "bcast_completed"
         ELSE /\ s_job' = s_job
              /\ t_pc' = "except"
    /\ UNCHANGED <<t_step, c_pc, c_reply, c_count>>

\* lines 122-128 and 143-149: the closing broadcast of the task
TaskBroadcast ==
    /\ t_pc \in {"bcast_completed", "bcast_failed"}
    /\ t_pc' = "done"
    /\ UNCHANGED <<s_job, t_step, c_pc, c_reply, c_count>>

\* lines 129-142: the job is marked failed; a database error here ends the
\* task
TaskFail ==
    /\ t_pc = "except"
    /\ \E ok \in BOOLEAN :
         IF ok
         THEN /\ s_job' = [s_job EXCEPT !.status = "failed", !.stage = "error"]
              /\ t_pc' = "bcast_failed"
         ELSE /\ s_job' = s_job
              /\ t_pc' = "done"
    /\ UNCHANGED <<t_step, c_pc, c_reply, c_count>>

\* jobs.py lines 59-70: the record is read and its status checked
CancelFind ==
    /\ c_pc = "idle"
    /\ c_count < MaxCancels
    /\ c_count' = c_count + 1
    /\ IF s_job = AbsentJob
       THEN c_reply' = 404 /\ c_pc' = "replied"
       ELSE IF s_job.status \notin {"queued", "processing"}
       THEN c_reply' = 400 /\ c_pc' = "replied"
       ELSE c_reply' = 0 /\ c_pc' = "update"
    /\ UNCHANGED <<s_job, t_pc, t_step>>

\* jobs.py lines 72-84: the record is updated by id, without a condition
\* on its status
CancelUpdate ==
    /\ c_pc = "update"
    /\ s_job' = [s_job EXCEPT !.status = "cancelled", !.stage = "cancelled"]
    /\ c_reply' = 200
    /\ c_pc' = "replied"
    /\ UNCHANGED <<t_pc, t_step, c_count>>

\* the response of cancel_job is sent
CancelSent ==
    /\ c_pc = "replied"
    /\ c_pc' = "idle"
    /\ c_reply' = 0
    /\ UNCHANGED <<s_job, t_pc, t_step, c_count>>

SnippetNext ==
    \/ CreateJob
    \/ TaskSetProcessing
    \/ TaskProgress
    \/ TaskInsertDoc
    \/ TaskSetCompleted
    \/ TaskBroadcast
    \/ TaskFail
    \/ CancelFind
    \/ CancelUpdate
    \/ CancelSent

\* ------------------------------------------------------------------------
\* Mermaid utilities (backend/services/mermaid_utils.py)
\*
\* Diagram text is a sequence of tokens: one token per special character
\* (newline, carriage return, backslash, quote, byte-order mark, bracket),
\* per code fence, per arrow, and per word.
\* ------------------------------------------------------------------------
BS == "\\"
Q == "\""
BOM == "BOM"
\* the code fence: three backticks
FENCE == "<fence>"

\* str.split(sep) for a one-token separator
RECURSIVE SplitOn(_, _)
SplitOn(s, sep) ==
    IF \A i \in 1..Len(s) : s[i] # sep
    THEN <<s>>
    ELSE LET i == CHOOSE i \in 1..Len(s) :
                    s[i] = sep /\ \A k \in 1..(i - 1) : s[k] # sep
         IN <<SubSeq(s, 1, i - 1)>> \o SplitOn(SubSeq(s, i + 1, Len(s)), sep)

\* sep.join(parts)
RECURSIVE Join(_, _)
Join(parts, sep) ==
    IF parts = <<>> THEN <<>>
    ELSE IF Len(parts) = 1 THEN parts[1]
    ELSE parts[1] \o <<sep>> \o Join(Tail(parts), sep)

\* str.count(t) for a one-token t
Count(s, t) == Cardinality({i \in 1..Len(s) : s[i] = t})

\* str.replace(pat, rep): left to right, non-overlapping, no rescan
RECURSIVE ReplaceAll(_, _, _)
ReplaceAll(s, pat, rep) ==
    IF Len(s) < Len(pat) THEN s
    ELSE IF SubSeq(s, 1, Len(pat)) = pat
         THEN rep \o ReplaceAll(SubSeq(s, Len(pat) + 1, Len(s)), pat, rep)
         ELSE <<Head(s)>> \o ReplaceAll(Tail(s), pat, rep)

\* str.lstrip(chars) for a one-token chars
RECURSIVE LStripTok(_, _)
LStripTok(s, t) == IF s # <<>> /\ Head(s) = t THEN LStripTok(Tail(s), t) ELSE s

MERMAID_KEYWORDS ==
    { "graph", "flowchart", "sequencediagram", "classdiagram", "statediagram",
      "statediagram-v2", "erdiagram", "gantt", "pie", "gitgraph", "mindmap",
      "timeline", "journey" }

\* any(first_line.startswith(kw) for kw in MERMAID_KEYWORDS), first_line
\* being lines[0].strip().lower(): the first word is a keyword
StartsWithKeyword(line) ==
    LET l == Strip(Lower(line))
    IN l # <<>> /\ l[1] \in MERMAID_KEYWORDS

\* re.sub(r"^```(?:mermaid)?\s*\n?", "", code)
StripLeadingFence(code) ==
    IF code # <<>> /\ Head(code) = FENCE
    THEN LET r == Tail(code)
         IN IF r # <<>> /\ Head(r) = "mermaid" THEN LStrip(Tail(r))
            ELSE LStrip(r)
    ELSE code

\* re.sub(r"\n?```\s*$", "", code)
StripTrailingFence(code) ==
    LET t == RStrip(code)
    IN IF t # <<>> /\ t[Len(t)] = FENCE
       THEN LET p == SubSeq(t, 1, Len(t) - 1)
            IN IF p # <<>> /\ p[Len(p)] = NL
               THEN SubSeq(p, 1, Len(p) - 1) ELSE p
       ELSE code

\* lines 31-38: double-escaped, then single-escaped sequences
Unescape(code) ==
    LET a == ReplaceAll(code, <<BS, BS, "n">>, <<NL>>)
        b == ReplaceAll(a, <<BS, BS, "t">>, <<" ", " ">>)
        c == ReplaceAll(b, <<BS, BS, Q>>, <<Q>>)
        d == ReplaceAll(c, <<BS, "n">>, <<NL>>)
        e == ReplaceAll(d, <<BS, "t">>, <<" ", " ">>)
    IN ReplaceAll(e, <<BS, Q>>, <<Q>>)

\* lines 41-45: \uXXXX escapes, decoded in one pass (a decoded backslash
\* starts no further escape); the word after the backslash is the escape:
\* u005c is the backslash, ufeff the byte-order mark
DecodeUnicode(code) ==
    LET a == ReplaceAll(code, <<BS, "u005c">>, <<"<decoded backslash>">>)
        b == ReplaceAll(a, <<BS, "ufeff">>, <<BOM>>)
    IN ReplaceAll(b, <<"<decoded backslash>">>, <<BS>>)

\* lines 51-54: newline normalisation, per-line rstrip, strip
NormalizeLines(code) ==
    LET a == ReplaceAll(ReplaceAll(code, <<CR, NL>>, <<NL>>), <<CR>>, <<NL>>)
        ls == SplitOn(a, NL)
    IN Strip(Join([i \in 1..Len(ls) |-> RStrip(ls[i])], NL))

clean_mermaid_code(raw_code) ==
    IF ~Truthy(raw_code) THEN <<>>
    ELSE NormalizeLines(
           LStripTok(
             DecodeUnicode(
               Unescape(StripTrailingFence(StripLeadingFence(raw_code)))),
             BOM))

ReasonEmpty == "Empty diagram code"
ReasonType == "Unrecognized diagram type in first line"
ReasonParen == "Unbalanced parentheses"
ReasonSquare == "Unbalanced square brackets"
ReasonCurly == "Unbalanced braces"

Reasons == {ReasonEmpty, ReasonType, ReasonParen, ReasonSquare, ReasonCurly}

validate_mermaid_syntax(code) ==
    IF ~Truthy(code) \/ ~Truthy(Strip(code))
    THEN [ok |-> FALSE, reason |-> ReasonEmpty]
    ELSE IF ~StartsWithKeyword(SplitOn(Strip(code), NL)[1])
    THEN [ok |-> FALSE, reason |-> ReasonType]
    ELSE IF Count(code, "(") # Count(code, ")")
    THEN [ok |-> FALSE, reason |-> ReasonParen]
    ELSE IF Count(code, "[") # Count(code, "]")
    THEN [ok |-> FALSE, reason |-> ReasonSquare]
    ELSE IF Count(code, "{") # Count(code, "}")
    THEN [ok |-> FALSE, reason |-> ReasonCurly]
    ELSE [ok |-> TRUE, reason |-> ""]

DefaultHeader == <<"flowchart", " ", "TD">>

ArrowTokens == {"-->", "->", "->>"}

\* re.search(r"-->\s*$", stripped) or re.search(r"->>?\s*$", stripped)
DanglingArrow(line) ==
    LET r == RStrip(line)
    IN r # <<>> /\ r[Len(r)] \in ArrowTokens

\* Repair 2, one bracket pair: drop trailing lines while the counts differ
RECURSIVE TrimTrailing(_, _, _)
TrimTrailing(lines, o, c) ==
    IF /\ Count(Join(lines, NL), o) # Count(Join(lines, NL), c)
       /\ Len(lines) > 1
    THEN TrimTrailing(SubSeq(lines, 1, Len(lines) - 1), o, c)
    ELSE lines

attempt_mermaid_repair_NoArrowPass(code, error) ==
    IF ~Truthy(code) THEN code
    ELSE LET l0 == SplitOn(Strip(code), NL)
             l1 == IF StartsWithKeyword(l0[1]) THEN l0
                   ELSE <<DefaultHeader>> \o l0
             l2 == TrimTrailing(l1, "(", ")")
             l3 == TrimTrailing(l2, "[", "]")
             l4 == TrimTrailing(l3, "{", "}")
         IN Strip(Join(l4, NL))

attempt_mermaid_repair(code, error) ==
    IF ~Truthy(code) THEN code
    ELSE LET l0 == SplitOn(Strip(code), NL)
             l1 == IF StartsWithKeyword(l0[1]) THEN l0
                   ELSE <<DefaultHeader>> \o l0
             l2 == TrimTrailing(l1, "(", ")")
             l3 == TrimTrailing(l2, "[", "]")
             l4 == TrimTrailing(l3, "{", "}")
             cleaned == SelectSeq(l4, LAMBDA l : ~DanglingArrow(l))
         IN Strip(Join(cleaned, NL))

\* all token sequences over an alphabet, up to a length
SeqsUpTo(A, n) == UNION { [1..k -> A] : k \in 0..n }

CleanAlphabet == {FENCE, NL, " ", BS, "n", BOM, "u005c", "graph"}

RepairAlphabet == {"graph", NL, " ", "(", ")", "[", "-->", "A"}

\* the fallback diagram of DiagramAgent._fallback_diagram
FallbackCode ==
    <<"flowchart", " ", "TD", NL,
      " ", "A", "[", "Start", "]", " ", "-->", " ", "B", "{", "Input",
      " ", "Valid?", "}", NL,
      " ", "B", " ", "-->", "|Yes|", " ", "C", "[", "Process", " ", "Data",
      "]", NL,
      " ", "B", " ", "-->", "|No|", " ", "D", "[", "Handle", " ", "Error",
      "]", NL,
      " ", "C", " ", "-->", " ", "E", "[", "Return", " ", "Result", "]", NL,
      " ", "D", " ", "-->", " ", "E", NL,
      " ", "E", " ", "-->", " ", "F", "[", "End", "]">>

ExampleTexts ==
    { <<"B", " ", "-->", " ", "C", NL, "C", " ", "-->">>,
      <<FENCE, "mermaid", NL, "graph", " ", "TD", CR, NL, "A", BS, "t", Q,
        NL, FENCE, NL>>,
      <<"graph", " ", "TD", NL, "A", "{", NL, "B", "}", "(">>,
      <<"flowchart", " ", "TD", NL, " ", "A", "[", "Start", "]", " ", "-->",
        " ", "B", "{", "Input", " ", "Valid?", "}", NL, " ", "B", " ", "-->",
        "|Yes|", " ", "C", "[", "End", "]">> }

MermaidTexts ==
    SeqsUpTo(CleanAlphabet, MaxLen) \cup SeqsUpTo(RepairAlphabet, MaxLen)
      \cup ExampleTexts

VARIABLES
    m_code,     \* the diagram text handed to the utility
    m_op,       \* "none" before the call, then the utility that was applied
    m_out,      \* text returned by clean / repair
    m_verdict   \* (is_valid, error_message) returned by validate

mvars == <<m_code, m_op, m_out, m_verdict>>

NoVerdict == [ok |-> FALSE, reason |-> "not validated"]

MermaidInit(texts) ==
    /\ m_code \in texts
    /\ m_op = "none"
    /\ m_out = <<>>
    /\ m_verdict = NoVerdict

CallClean ==
    /\ m_op = "none"
    /\ m_op' = "clean"
    /\ m_out' = clean_mermaid_code(m_code)
    /\ UNCHANGED <<m_code, m_verdict>>

CallValidate ==
    /\ m_op = "none"
    /\ m_op' = "validate"
    /\ m_verdict' = validate_mermaid_syntax(m_code)
    /\ UNCHANGED <<m_code, m_out>>

CallRepair ==
    /\ m_op = "none"
    /\ \E error \in Reasons :
         /\ m_op' = "repair"
         /\ m_out' = attempt_mermaid_repair(m_code, error)
         /\ m_verdict' = [ok |-> FALSE, reason |-> error]
    /\ UNCHANGED m_code

MermaidNext == CallClean \/ CallValidate \/ CallRepair

\* ------------------------------------------------------------------------
\* Model responses and JSON (json.loads as the agents use it)
\*
\* A JSON object text is "{", one token per member, "}"; a member token is
\* the member's key, followed by ":" and a tag when the value is not the
\* one the schema asks for.  Arrays, numbers, strings and null are the
\* texts listed in JsonLoads.
\* ------------------------------------------------------------------------
ReaderKeys ==
    {"complexity", "dependencies", "architecture_type", "documentation_needs"}
SearcherKeys == {"patterns", "best_practices", "concepts", "examples"}
WriterKeys == {"docstring", "markdown", "examples"}
VerifierKeys == {"approved", "quality_score", "evaluation", "feedback"}
DiagramKeys == {"diagram_type", "mermaid_code", "description"}

\* the declared schema of each agent (system prompts of the five agents)
SchemaKeys(agent) ==
    CASE agent = "reader" -> ReaderKeys
      [] agent = "searcher" -> SearcherKeys
      [] agent = "writer" -> WriterKeys
      [] agent = "verifier" -> VerifierKeys
      [] agent = "diagram" -> DiagramKeys

\* member tokens whose value is not a plain, well-typed one
TaggedMembers ==
    { "mermaid_code:123", "mermaid_code:empty", "mermaid_code:nokw",
      "mermaid_code:paren", "docstring:tq" }

MemberTokens ==
    ReaderKeys \cup SearcherKeys \cup WriterKeys \cup VerifierKeys
      \cup DiagramKeys \cup TaggedMembers \cup {"foo"}

MemberKey(m) ==
    CASE m \in {"mermaid_code:123", "mermaid_code:empty", "mermaid_code:nokw",
                "mermaid_code:paren"} -> "mermaid_code"
      [] m = "docstring:tq" -> "docstring"
      [] OTHER -> m

\* the value of mermaid_code in the mock response (base.py:241): the
\* newlines are the two characters backslash, n
MockMermaid ==
    <<"flowchart", " ", "TD", BS, "n",
      " ", "A", "[", "Start", "]", " ", "-->", " ", "B", "{", "Validate",
      " ", "Input", "}", BS, "n",
      " ", "B", " ", "-->", "|Valid|", " ", "C", "[", "Process", " ", "Data",
      "]", BS, "n",
      " ", "C", " ", "-->", " ", "E", "[", "End", "]">>

\* the string a mermaid_code member holds (<<>> when it holds no string)
MemberCode(m) ==
    CASE m = "mermaid_code" -> MockMermaid
      [] m = "mermaid_code:nokw" -> <<"A", " ", "-->", " ", "B", NL, "B", " ", "-->">>
      [] m = "mermaid_code:paren" -> <<"graph", " ", "TD", " ", "(">>
      [] OTHER -> <<>>

\* how Python sees the value of a mermaid_code member
MemberCodeType(m) ==
    CASE m \in {"mermaid_code", "mermaid_code:nokw", "mermaid_code:paren",
                "mermaid_code:empty"} -> "str"
      [] m = "mermaid_code:123" -> "int"
      [] OTHER -> "absent"

JStr == "\"text\""

\* a Python value an agent handles: kind is the Python type, keys the keys
\* of a dict, code / code_type the value under "mermaid_code", origin what
\* the content was built from
NoValue ==
    [kind |-> "none", keys |-> {}, code |-> <<>>, code_type |-> "absent",
     origin |-> <<>>]

Scalar(kind, text) ==
    [kind |-> kind, keys |-> {}, code |-> <<>>, code_type |-> "absent",
     origin |-> <<"json">> \o text]

Dict(keys, code, code_type, origin) ==
    [kind |-> "dict", keys |-> keys, code |-> code, code_type |-> code_type,
     origin |-> origin]

\* the mermaid_code member of an object text, "" when there is none
CodeMember(members) ==
    IF \E i \in 1..Len(members) : MemberKey(members[i]) = "mermaid_code"
    THEN members[CHOOSE i \in 1..Len(members) :
                    /\ MemberKey(members[i]) = "mermaid_code"
                    /\ \A k \in (i + 1)..Len(members) :
                         MemberKey(members[k]) # "mermaid_code"]
    ELSE ""

\* json.loads(text): [ok |-> parsed without JSONDecodeError, value]
JsonLoads(text) ==
    LET t == Strip(text)
        inner == SelectSeq(SubSeq(t, 2, Len(t) - 1), LAMBDA m : ~IsSpace(m))
    IN  IF /\ Len(t) >= 2 /\ t[1] = "{" /\ t[Len(t)] = "}"
           /\ \A i \in 1..Len(inner) :
                inner[i] \in MemberTokens /\ inner[i] # "docstring:tq"
        THEN [ok |-> TRUE,
              value |-> Dict({MemberKey(inner[i]) : i \in 1..Len(inner)},
                             MemberCode(CodeMember(inner)),
                             MemberCodeType(CodeMember(inner)),
                             <<"json">> \o inner)]
        ELSE IF t = <<"[", "1", "]">> \/ t = <<"[", "]">>
        THEN [ok |-> TRUE, value |-> Scalar("list", t)]
        ELSE IF t = <<"5">> \/ t = <<"0">>
        THEN [ok |-> TRUE, value |-> Scalar("int", t)]
        ELSE IF t = <<JStr>>
        THEN [ok |-> TRUE, value |-> Scalar("str", t)]
        ELSE IF t = <<"null">>
        THEN [ok |-> TRUE, value |-> Scalar("NoneType", t)]
        ELSE [ok |-> FALSE, value |-> NoValue]

\* bool(v) for a parsed value
TruthyValue(v) ==
    CASE v.kind = "dict" -> v.keys # {}
      [] v.kind = "list" -> v.origin # <<"json", "[", "]">>
      [] v.kind = "int" -> v.origin # <<"json", "0">>
      [] v.kind = "str" -> TRUE
      [] OTHER -> FALSE

\* str.split(pat) for a token sequence pat
RECURSIVE SplitSeq(_, _)
SplitSeq(s, pat) ==
    IF ~Contains(s, pat) THEN <<s>>
    ELSE LET i == CHOOSE i \in 0..(Len(s) - Len(pat)) :
                    /\ SubSeq(s, i + 1, i + Len(pat)) = pat
                    /\ \A k \in 0..(i - 1) : SubSeq(s, k + 1, k + Len(pat)) # pat
         IN <<SubSeq(s, 1, i)>>
              \o SplitSeq(SubSeq(s, i + Len(pat) + 1, Len(s)), pat)

\* ------------------------------------------------------------------------
\* The five agents (backend/agents/{reader,searcher,writer,verifier,
\* diagram}.py): what each makes of the text self.generate returned
\* ------------------------------------------------------------------------

\* what a call produced: raised is the exception type ("" when the call
\* returned), value the record returned, extracted whether the extraction
\* of the response yielded a value, path the return statement taken
Returned(v, extracted, path) ==
    [raised |-> "", value |-> v, extracted |-> extracted, path |-> path]

Raised(exc_type) ==
    [raised |-> exc_type, value |-> NoValue, extracted |-> TRUE,
     path |-> "raise"]

\* reader.py:37-40 (and the same lines of searcher.py, verifier.py)
FencedBody(clean) ==
    IF Contains(clean, <<FENCE, "json">>)
    THEN Strip(SplitSeq(SplitSeq(clean, <<FENCE, "json">>)[2], <<FENCE>>)[1])
    ELSE IF Contains(clean, <<FENCE>>)
    THEN Strip(SplitSeq(SplitSeq(clean, <<FENCE>>)[2], <<FENCE>>)[1])
    ELSE clean

ReaderDefault == Dict(ReaderKeys, <<>>, "absent", <<"reader_default">>)
SearcherDefault == Dict(SearcherKeys, <<>>, "absent", <<"searcher_default">>)
VerifierDefault == Dict(VerifierKeys, <<>>, "absent", <<"verifier_default">>)

analyze_EchoOnFailure(response) ==
    LET p == JsonLoads(FencedBody(Strip(response)))
    IN  IF p.ok THEN Returned(p.value, TRUE, "parsed")
        ELSE Returned(Scalar("str", response), FALSE, "default")

analyze(response) ==
    LET p == JsonLoads(FencedBody(Strip(response)))
    IN  IF p.ok THEN Returned(p.value, TRUE, "parsed")
        ELSE Returned(ReaderDefault, FALSE, "default")

search(response) ==
    LET p == JsonLoads(FencedBody(Strip(response)))
    IN  IF p.ok THEN Returned(p.value, TRUE, "parsed")
        ELSE Returned(SearcherDefault, FALSE, "default")

verify(response) ==
    LET p == JsonLoads(FencedBody(Strip(response)))
    IN  IF p.ok THEN Returned(p.value, TRUE, "parsed")
        ELSE Returned(VerifierDefault, FALSE, "default")

\* writer.py:43-46: the second branch asks startswith, not containment
WriterBody(clean) ==
    IF Contains(clean, <<FENCE, "json">>)
    THEN Strip(SplitSeq(SplitSeq(clean, <<FENCE, "json">>)[2], <<FENCE>>)[1])
    ELSE IF clean # <<>> /\ Head(clean) = FENCE
    THEN Strip(SplitSeq(SplitSeq(clean, <<FENCE>>)[2], <<FENCE>>)[1])
    ELSE clean

\* writer.py:56: clean_response.replace('"""', '"')
FixTripleQuotes(s) ==
    [i \in 1..Len(s) |-> IF s[i] = "docstring:tq" THEN "docstring" ELSE s[i]]

\* writer.py:63-66: a "docstring" member with a quoted value
DocstringMatch(s) ==
    \E i \in 1..Len(s) : s[i] \in {"docstring", "docstring:tq"}

\* writer.py:67-70
MarkdownMatch(s) == \E i \in 1..Len(s) : s[i] = "markdown"

\* writer.py:83-92
FuncName(source_code) ==
    IF Contains(source_code, <<"def", " ">>)
    THEN Strip(SplitSeq(SplitSeq(source_code, <<"def", " ">>)[2], <<"(">>)[1])
    ELSE IF Contains(source_code, <<"function", " ">>)
    THEN Strip(SplitSeq(SplitSeq(source_code, <<"function", " ">>)[2],
                        <<"(">>)[1])
    ELSE <<"function">>

\* writer.py:94-98: the default names the function and the language
WriterDefault(source_code, language) ==
    Dict(WriterKeys, <<>>, "absent",
         <<"writer_default", language>> \o FuncName(source_code))

write(response, source_code, language) ==
    LET body == WriterBody(Strip(response))
        p1 == JsonLoads(body)
        p2 == JsonLoads(FixTripleQuotes(body))
    IN  IF p1.ok THEN Returned(p1.value, TRUE, "parsed")
        ELSE IF p2.ok THEN Returned(p2.value, TRUE, "parsed_fixed")
        ELSE IF DocstringMatch(body) \/ MarkdownMatch(body)
        THEN Returned(
               Dict(WriterKeys, <<>>, "absent",
                    <<"regex",
                      IF DocstringMatch(body) THEN "docstring" ELSE "",
                      IF MarkdownMatch(body) THEN "markdown" ELSE "">>),
               TRUE, "regex")
        ELSE Returned(WriterDefault(source_code, language), FALSE, "default")

\* diagram.py:76: re.search(pattern, clean) for the two fence patterns:
\* the text between the opening and the next fence
FenceGroup(clean, opening) ==
    LET start == Len(SplitSeq(clean, opening)[1]) + Len(opening) + 1
        rest == SubSeq(clean, start, Len(clean))
    IN  IF Contains(clean, opening) /\ Contains(rest, <<FENCE>>)
        THEN [found |-> TRUE, text |-> Strip(SplitSeq(rest, <<FENCE>>)[1])]
        ELSE [found |-> FALSE, text |-> <<>>]

\* diagram.py:85: re.search(r"\{.*\}", clean): first "{" to last "}"
BraceGroup(clean) ==
    LET os == {i \in 1..Len(clean) : clean[i] = "{"}
        cs == {i \in 1..Len(clean) : clean[i] = "}"}
    IN  IF os # {} /\ \E c \in cs : \E o \in os : o < c
        THEN LET o == CHOOSE o \in os : \A k \in os : o <= k
                 c == CHOOSE c \in cs : \A k \in cs : k <= c
             IN [found |-> TRUE, text |-> SubSeq(clean, o, c)]
        ELSE [found |-> FALSE, text |-> <<>>]

\* a value json.loads produced is returned as it is (None included)
Extracted(p) == [found |-> p.value.kind # "NoneType", value |-> p.value]

\* diagram.py:67-105: [found |-> a value other than None, value]
extract_json(response) ==
    LET clean == Strip(response)
        g1 == FenceGroup(clean, <<FENCE, "json">>)
        g2 == FenceGroup(clean, <<FENCE>>)
        g3 == BraceGroup(clean)
    IN  IF JsonLoads(clean).ok THEN Extracted(JsonLoads(clean))
        ELSE IF g1.found /\ JsonLoads(g1.text).ok
        THEN Extracted(JsonLoads(g1.text))
        ELSE IF g2.found /\ JsonLoads(g2.text).ok
        THEN Extracted(JsonLoads(g2.text))
        ELSE IF g3.found /\ JsonLoads(g3.text).ok
        THEN Extracted(JsonLoads(g3.text))
        ELSE IF StartsWithKeyword(SplitOn(clean, NL)[1])
        THEN [found |-> TRUE,
              value |-> Dict(DiagramKeys, clean, "str", <<"raw">> \o clean)]
        ELSE [found |-> FALSE, value |-> NoValue]

\* diagram.py:107-113
fallback_diagram == Dict(DiagramKeys, FallbackCode, "str", <<"fallback">>)

WithCode(parsed, code) == [parsed EXCEPT !.code = code]

RepairedDiagram_NoRevalidate(parsed, repaired) ==
    Returned(WithCode(parsed, repaired), TRUE, "repaired")

\* diagram.py:56-63: the repaired code is validated again
RepairedDiagram(parsed, repaired) ==
    IF validate_mermaid_syntax(repaired).ok
    THEN Returned(WithCode(parsed, repaired), TRUE, "repaired")
    ELSE Returned(fallback_diagram, TRUE, "fallback")

\* diagram.py:49-55: valid code is returned, invalid code repaired once
ValidatedDiagram(parsed, cleaned, verdict) ==
    IF verdict.ok THEN Returned(WithCode(parsed, cleaned), TRUE, "cleaned")
    ELSE RepairedDiagram(parsed,
                         attempt_mermaid_repair(cleaned, verdict.reason))

\* diagram.py:48
CleanedDiagram(parsed, cleaned) ==
    ValidatedDiagram(parsed, cleaned, validate_mermaid_syntax(cleaned))

\* diagram.py:47-65 for what _extract_json returned: parsed.get raises
\* AttributeError unless parsed is a dict, clean_mermaid_code raises
\* TypeError (re.sub) unless the code is a string
DiagramFrom(e) ==
    IF ~(e.found /\ TruthyValue(e.value))
    THEN Returned(fallback_diagram, e.found, "fallback")
    ELSE IF e.value.kind # "dict" THEN Raised("AttributeError")
    ELSE IF e.value.code_type = "absent"
    THEN Returned(fallback_diagram, TRUE, "fallback")
    ELSE IF e.value.code_type # "str" THEN Raised("TypeError")
    ELSE IF e.value.code = <<>>
    THEN Returned(fallback_diagram, TRUE, "fallback")
    ELSE CleanedDiagram(e.value, clean_mermaid_code(e.value.code))

\* diagram.py:37-65
generate_diagram(response) == DiagramFrom(extract_json(response))

\* ------------------------------------------------------------------------
\* One agent call: prompt, self.generate, extraction
\* ------------------------------------------------------------------------
Languages == {"python", "javascript"}

Sources ==
    { <<"x", "=", "1">>,
      <<"def", " ", "foo", "(", ")", ":", " ", "pass">>,
      <<"function", " ", "bar", "(", ")">>,
      <<"code", "=", "1">> }

\* the user message each agent builds (reader.py:28, searcher.py:28,
\* writer.py:36, verifier.py:33, diagram.py:40); JSON dumps are one token
UserPrompt(agent, source_code, language) ==
    CASE agent = "reader" ->
           <<"Analyze", " ", "this", " ", language, " ", "code", ":", NL, NL,
             FENCE, language, NL>> \o source_code \o <<NL, FENCE>>
      [] agent = "searcher" ->
           <<"Provide", " ", "context", " ", "for", " ", "documenting", " ",
             language, " ", "code", " ", "with", " ", "this", " ",
             "analysis", ":", NL, "<analysis>">>
      [] agent = "writer" ->
           <<"Write", " ", "documentation", " ", "for", " ", "this", " ",
             language, " ", "code", ":", NL, NL, FENCE, language, NL>>
             \o source_code
             \o <<NL, FENCE, NL, NL, "Context", ":", " ", "<context>">>
      [] agent = "verifier" ->
           <<"Verify", " ", "this", " ", "documentation", ":", NL, NL,
             "Code", ":", NL, FENCE, NL>> \o source_code
             \o <<NL, FENCE, NL, NL, "Documentation", ":", NL,
                  "<documentation>">>
      [] agent = "diagram" ->
           <<"Create", " ", "a", " ", "diagram", " ", "for", ":", NL, FENCE,
             NL>> \o source_code \o <<NL, FENCE>>

AgentMessages(agent, source_code, language) ==
    << [role |-> "system", content |-> <<"<instructions>">>],
       [role |-> "user", content |-> UserPrompt(agent, source_code, language)] >>

\* what self.generate returns when both backends fail (base.py:56)
MockFor(agent, source_code, language) ==
    mock_response(AgentMessages(agent, source_code, language))

\* bodies a model may answer with
ResponseBodies ==
    { MockReader, MockSearcher, MockWriter, MockVerifier, MockDiagram,
      MockDefault,
      <<"{", "foo", "}">>, <<"{", "}">>,
      <<"{", "diagram_type", "mermaid_code:123", "description", "}">>,
      <<"{", "diagram_type", "mermaid_code:empty", "description", "}">>,
      <<"{", "diagram_type", "mermaid_code:nokw", "description", "}">>,
      <<"{", "diagram_type", "mermaid_code:paren", "description", "}">>,
      <<"{", "diagram_type", "description", "}">>,
      <<"[", "1", "]">>, <<"[", "]">>, <<"5">>, <<"0">>, <<JStr>>,
      <<"null">>,
      <<"{", "docstring", "markdown">>,
      <<"{", "docstring:tq", "markdown", "examples", "}">>,
      <<"graph", " ", "TD", NL, "A", " ", "-->", " ", "B">> }

\* the ways a model wraps its answer
Wrap(w, body) ==
    CASE w = "bare" -> body
      [] w = "json_fence" -> <<FENCE, "json", NL>> \o body \o <<NL, FENCE>>
      [] w = "fence" -> <<FENCE, NL>> \o body \o <<NL, FENCE>>
      [] w = "prose" -> <<"Here", " ", "it", " ", "is", ":", NL>> \o body
      [] w = "prose_fence" ->
           <<"Here", ":", NL, FENCE, "json", NL>> \o body
             \o <<NL, FENCE, NL, "Bye">>
      [] w = "open_fence" -> <<" ", FENCE, "json", NL>> \o body \o <<NL>>

Wrappers ==
    {"bare", "json_fence", "fence", "prose", "prose_fence", "open_fence"}

Responses == { Wrap(w, b) : w \in Wrappers, b \in ResponseBodies }

\* responses of the two-call comparison
PairResponses ==
    { MockReader, MockWriter, MockDefault,
      <<"{", "docstring", "markdown">>, <<"Sorry">>,
      <<FENCE, "json", NL, "oops", NL, FENCE>> }

\* orchestrator.py:98-153 (run_agent): the method behind each agent name
AgentCall(agent, response, source_code, language) ==
    CASE agent = "reader" -> analyze(response)
      [] agent = "searcher" -> search(response)
      [] agent = "writer" -> write(response, source_code, language)
      [] agent = "verifier" -> verify(response)
      [] agent = "diagram" -> generate_diagram(response)

NoOutcome ==
    [raised |-> "", value |-> NoValue, extracted |-> FALSE, path |-> "none"]

VARIABLES
    a_agent,     \* the agent called
    a_source,    \* source_code argument
    a_language,  \* language argument
    a_pc,        \* "start", "generated", "done", "done2"
    a_response,  \* text self.generate returned
    a_mock,      \* whether that text is the mock response
    a_out,       \* outcome of the call
    b_source,    \* second call of the same agent: arguments,
    b_language,
    b_response,  \* response
    b_out        \* and outcome

avars == <<a_agent, a_source, a_language, a_pc, a_response, a_mock, a_out,
           b_source, b_language, b_response, b_out>>

AgentInit(names) ==
    /\ a_agent \in names
    /\ a_source \in Sources
    /\ a_language \in Languages
    /\ a_pc = "start"
    /\ a_response = <<>>
    /\ a_mock = FALSE
    /\ a_out = NoOutcome
    /\ b_source = <<>>
    /\ b_language = ""
    /\ b_response = <<>>
    /\ b_out = NoOutcome

bvars == <<b_source, b_language, b_response, b_out>>

\* await self.generate(messages): a backend answers with some text
AgentGenerate(texts) ==
    /\ a_pc = "start"
    /\ a_response' \in texts
    /\ a_mock' = FALSE
    /\ a_pc' = "generated"
    /\ UNCHANGED <<a_agent, a_source, a_language, a_out, bvars>>

\* await self.generate(messages): both backends fail
AgentGenerateMock ==
    /\ a_pc = "start"
    /\ a_response' = MockFor(a_agent, a_source, a_language)
    /\ a_mock' = TRUE
    /\ a_pc' = "generated"
    /\ UNCHANGED <<a_agent, a_source, a_language, a_out, bvars>>

AgentReturns(agent, outcome) ==
    /\ a_pc = "generated"
    /\ a_agent = agent
    /\ a_out' = outcome
    /\ a_pc' = "done"
    /\ UNCHANGED <<a_agent, a_source, a_language, a_response, a_mock, bvars>>

ReaderAnalyze == AgentReturns("reader", analyze(a_response))

SearcherSearch == AgentReturns("searcher", search(a_response))

WriterWrite ==
    AgentReturns("writer", write(a_response, a_source, a_language))

VerifierVerify == AgentReturns("verifier", verify(a_response))

DiagramGenerate == AgentReturns("diagram", generate_diagram(a_response))

\* the same agent is called a second time, with any arguments
SecondCall(texts) ==
    /\ a_pc = "done"
    /\ \E s \in Sources, l \in Languages, r \in texts :
         /\ b_source' = s
         /\ b_language' = l
         /\ b_response' = r
         /\ b_out' = AgentCall(a_agent, r, s, l)
    /\ a_pc' = "done2"
    /\ UNCHANGED <<a_agent, a_source, a_language, a_response, a_mock, a_out>>

AgentNext ==
    \/ AgentGenerate(Responses)
    \/ AgentGenerateMock
    \/ ReaderAnalyze
    \/ SearcherSearch
    \/ WriterWrite
    \/ VerifierVerify
    \/ DiagramGenerate

PairNext ==
    \/ AgentGenerate(PairResponses)
    \/ AgentGenerateMock
    \/ ReaderAnalyze
    \/ SearcherSearch
    \/ WriterWrite
    \/ VerifierVerify
    \/ DiagramGenerate
    \/ SecondCall(PairResponses)

\* ------------------------------------------------------------------------
\* Single-snippet pipeline (backend/agents/orchestrator.py,
\* OrchestratorAgent.generate_documentation)
\* ------------------------------------------------------------------------

\* responses of the stages' models while the pipeline runs
PipeResponses ==
    { MockReader, MockWriter, MockDiagram, MockDefault, <<"[", "1", "]">> }

\* progress value announced before each stage, and after the last
ProgressBefore(agent) ==
    CASE agent = "reader" -> 10
      [] agent = "searcher" -> 30
      [] agent = "writer" -> 50
      [] agent = "verifier" -> 70
      [] agent = "diagram" -> 90

NoStages == [a \in AgentNames |-> NoValue]

VARIABLES
    p_source,    \* source_code argument
    p_language,  \* language argument
    p_callback,  \* whether a progress_callback was passed
    p_stage,     \* index in agents of the current stage (6: past the last)
    p_at,        \* "callback", "call", "await", "final", "done"
    p_stages,    \* result["stages"], by agent
    p_status,    \* result["status"]
    p_error,     \* result["error"]
    p_progress,  \* values the progress callback received, in order
    p_invoked,   \* agents whose method was called, in order
    p_returned   \* agents whose method returned, in order

pvars == <<p_source, p_language, p_callback, p_stage, p_at, p_stages,
           p_status, p_error, p_progress, p_invoked, p_returned>>

PipeInit(sources) ==
    /\ p_source \in sources
    /\ p_language \in Languages
    /\ p_callback \in BOOLEAN
    /\ p_stage = 1
    /\ p_at = "callback"
    /\ p_stages = NoStages
    /\ p_status = "processing"
    /\ p_error = ""
    /\ p_progress = <<>>
    /\ p_invoked = <<>>
    /\ p_returned = <<>>

\* `if progress_callback: await progress_callback(n, ...)` before a stage
ProgressCallback_Early100 ==
    /\ p_at = "callback"
    /\ p_stage <= Len(agents)
    /\ p_progress' = IF p_callback
                     THEN Append(p_progress,
                                 IF p_stage = 5 THEN 100
                                 ELSE ProgressBefore(agents[p_stage]))
                     ELSE p_progress
    /\ p_at' = "call"
    /\ UNCHANGED <<p_source, p_language, p_callback, p_stage, p_stages,
                   p_status, p_error, p_invoked, p_returned>>

ProgressCallback ==
    /\ p_at = "callback"
    /\ p_stage <= Len(agents)
    /\ p_progress' = IF p_callback
                     THEN Append(p_progress, ProgressBefore(agents[p_stage]))
                     ELSE p_progress
    /\ p_at' = "call"
    /\ UNCHANGED <<p_source, p_language, p_callback, p_stage, p_stages,
                   p_status, p_error, p_invoked, p_returned>>

\* the stage's agent method is called and awaits its model
StageCall ==
    /\ p_at = "call"
    /\ p_invoked' = Append(p_invoked, agents[p_stage])
    /\ p_at' = "await"
    /\ UNCHANGED <<p_source, p_language, p_callback, p_stage, p_stages,
                   p_status, p_error, p_progress, p_returned>>

\* the model's text arrives and the agent method returns its record
StageReturn ==
    /\ p_at = "await"
    /\ \E r \in PipeResponses
              \cup {MockFor(agents[p_stage], p_source, p_language)} :
         LET out == AgentCall(agents[p_stage], r, p_source, p_language)
         IN  /\ out.raised = ""
             /\ p_stages' = [p_stages EXCEPT ![agents[p_stage]] = out.value]
    /\ p_returned' = Append(p_returned, agents[p_stage])
    /\ p_stage' = p_stage + 1
    /\ p_at' = IF p_stage = Len(agents) THEN "final" ELSE "callback"
    /\ UNCHANGED <<p_source, p_language, p_callback, p_status, p_error,
                   p_progress, p_invoked>>

\* the agent method raises: lines 91-94
StageRaise ==
    /\ p_at = "await"
    /\ \E r \in PipeResponses
              \cup {MockFor(agents[p_stage], p_source, p_language)} :
         LET out == AgentCall(agents[p_stage], r, p_source, p_language)
         IN  /\ out.raised # ""
             /\ p_error' = out.raised
    /\ p_status' = "failed"
    /\ p_at' = "done"
    /\ UNCHANGED <<p_source, p_language, p_callback, p_stage, p_stages,
                   p_progress, p_invoked, p_returned>>

\* lines 77-89: the last progress call, then the combined record; .get on
\* a stage result that is not a dict raises AttributeError (lines 91-94)
Complete ==
    /\ p_at = "final"
    /\ p_progress' = IF p_callback THEN Append(p_progress, 100)
                     ELSE p_progress
    /\ IF p_stages["writer"].kind = "dict" /\ p_stages["verifier"].kind = "dict"
       THEN p_status' = "completed" /\ p_error' = ""
       ELSE p_status' = "failed" /\ p_error' = "AttributeError"
    /\ p_at' = "done"
    /\ UNCHANGED <<p_source, p_language, p_callback, p_stage, p_stages,
                   p_invoked, p_returned>>

PipeNext == ProgressCallback \/ StageCall \/ StageReturn \/ StageRaise \/ Complete

\* ------------------------------------------------------------------------
\* Specifications
\* ------------------------------------------------------------------------
vars == <<gvars, jvars, mvars, avars, pvars, qvars, svars>>

\* no generate call is in progress
GenIdle ==
    /\ api_key = ""
    /\ model_id = <<>>
    /\ messages = <<>>
    /\ g_pc = "idle"
    /\ attempt = 0
    /\ g_result = None
    /\ g_log = <<>>

\* no mermaid utility is being applied
MermaidIdle ==
    /\ m_code = <<>>
    /\ m_op = "idle"
    /\ m_out = <<>>
    /\ m_verdict = NoVerdict

\* no agent is being called
AgentIdle ==
    /\ a_agent = ""
    /\ a_source = <<>>
    /\ a_language = ""
    /\ a_pc = "idle"
    /\ a_response = <<>>
    /\ a_mock = FALSE
    /\ a_out = NoOutcome
    /\ b_source = <<>>
    /\ b_language = ""
    /\ b_response = <<>>
    /\ b_out = NoOutcome

\* no single-snippet pipeline is running
PipeIdle ==
    /\ p_source = <<>>
    /\ p_language = ""
    /\ p_callback = FALSE
    /\ p_stage = 0
    /\ p_at = "idle"
    /\ p_stages = NoStages
    /\ p_status = ""
    /\ p_error = ""
    /\ p_progress = <<>>
    /\ p_invoked = <<>>
    /\ p_returned = <<>>

\* one call of BytezAgent.generate
Init ==
    /\ GenInit /\ JobInit({}) /\ MermaidIdle /\ AgentIdle /\ PipeIdle
    /\ StatusIdle /\ SnippetIdle

Next == GenNext /\ UNCHANGED <<jvars, mvars, avars, pvars, qvars, svars>>

Spec == Init /\ [][Next]_vars

\* one call of BytezAgent.generate of an agent without API key: the cloud
\* path is skipped (line 35) and _call_ollama is the first backend
LocalInit == Init /\ ~api_key

LocalNext ==
    /\ \/ GenerateEnter
       \/ OllamaTags
       \/ OllamaChat
       \/ MockFallback
    /\ UNCHANGED <<jvars, mvars, avars, pvars, qvars, svars>>

SpecLocal == LocalInit /\ [][LocalNext]_vars

\* one repository documentation job
RepoInit ==
    /\ GenIdle /\ JobInit({1}) /\ MermaidIdle /\ AgentIdle /\ PipeIdle
    /\ StatusIdle /\ SnippetIdle

RepoNext == JobNext /\
    UNCHANGED <<gvars, mvars, avars, pvars, qvars, svars>>

SpecRepo == RepoInit /\ [][RepoNext]_vars

\* two repository documentation jobs running concurrently
RepoPairInit ==
    /\ GenIdle /\ JobInit(JobIds) /\ MermaidIdle /\ AgentIdle /\ PipeIdle
    /\ StatusIdle /\ SnippetIdle

RepoPairNext == JobPairNext /\
    UNCHANGED <<gvars, mvars, avars, pvars, qvars, svars>>

SpecRepoPair == RepoPairInit /\ [][RepoPairNext]_vars

\* one application of a mermaid utility to a diagram text
MermaidSpecInit ==
    /\ GenIdle /\ JobInit({}) /\ MermaidInit(MermaidTexts) /\ AgentIdle
    /\ PipeIdle /\ StatusIdle /\ SnippetIdle

MermaidSpecNext ==
    MermaidNext /\ UNCHANGED <<gvars, jvars, avars, pvars, qvars, svars>>

SpecMermaid == MermaidSpecInit /\ [][MermaidSpecNext]_vars

\* one call of one agent
AgentSpecInit ==
    /\ GenIdle /\ JobInit({}) /\ MermaidIdle /\ AgentInit(AgentNames)
    /\ PipeIdle /\ StatusIdle /\ SnippetIdle

AgentSpecNext ==
    AgentNext /\ UNCHANGED <<gvars, jvars, mvars, pvars, qvars, svars>>

SpecAgents == AgentSpecInit /\ [][AgentSpecNext]_vars

\* two calls of one agent, to compare what they return
PairSpecNext ==
    PairNext /\ UNCHANGED <<gvars, jvars, mvars, pvars, qvars, svars>>

SpecAgentPair == AgentSpecInit /\ [][PairSpecNext]_vars

\* one call of generate_documentation
PipeSpecInit ==
    /\ GenIdle /\ JobInit({}) /\ MermaidIdle /\ AgentIdle /\ PipeInit(Sources)
    /\ StatusIdle /\ SnippetIdle

PipeSpecNext ==
    PipeNext /\ UNCHANGED <<gvars, jvars, mvars, avars, qvars, svars>>

SpecPipeline == PipeSpecInit /\ [][PipeSpecNext]_vars

\* one repository job and status queries for any job id; job 2 is never
\* submitted, the store may hold its record from an earlier run
StatusSpecInit ==
    /\ GenIdle /\ MermaidIdle /\ AgentIdle /\ PipeIdle
    /\ \E stored \in SUBSET (JobIds \ {1}) : JobInitWith({1}, stored)
    /\ StatusIdle /\ SnippetIdle

StatusSpecNext ==
    StatusNext /\ UNCHANGED <<gvars, mvars, avars, pvars, svars>>

SpecStatus == StatusSpecInit /\ [][StatusSpecNext]_vars

\* one single-snippet job and the cancel requests for it
SnippetSpecInit ==
    /\ GenIdle /\ JobInit({}) /\ MermaidIdle /\ AgentIdle /\ PipeIdle
    /\ StatusIdle /\ SnippetIdle

SnippetSpecNext ==
    SnippetNext /\ UNCHANGED <<gvars, jvars, mvars, avars, pvars, qvars>>

SpecSnippet == SnippetSpecInit /\ [][SnippetSpecNext]_vars

\* ------------------------------------------------------------------------
\* Properties of BytezAgent.generate
\* ------------------------------------------------------------------------
LogIdx == 1..Len(g_log)

IsCloudPost(e) == e.ev = "cloud_post"
IsCloudResp(e) == e.ev = "cloud_resp"
IsLocal(e) == e.ev \in {"tags_get", "chat_post"}

\* the event is a backend handing text to generate
YieldsText(e) ==
    \/ e.ev = "cloud_resp" /\ e.outcome = "200" /\ BytezContent(e.body) # None
    \/ e.ev = "chat_post" /\ e.outcome = "ok" /\ Truthy(e.text)
    \/ e.ev = "mock"

\* the event ends the local path without text
LocalNone(e) ==
    \/ e.ev = "tags_get"
         /\ ~(e.probe = "ok"
              /\ model_available(resolve_ollama_model(model_id), e.installed))
    \/ e.ev = "chat_post" /\ ~(e.outcome = "ok" /\ Truthy(e.text))

\* C1: generate returns a text that is neither null nor empty, whatever
\* the message list and whatever the cloud and local backends answer.
C1_GenerateNeverEmpty ==
    g_pc = "done" => (g_result # None /\ Len(g_result) > 0)

\* C1 witness: generate returned after the cloud path and the local path
\* both failed
C1_Witness ==
    /\ g_pc = "done"
    /\ \E i \in LogIdx : g_log[i].ev = "cloud_none"
    /\ \E i \in LogIdx : LocalNone(g_log[i])
    /\ g_result # None

\* C2: the backends are tried in the order cloud, local, mock; no cloud
\* request without an API key; the local backend only after the cloud path
\* gave no result or was skipped; the mock only after the local path gave no
\* result; nothing is contacted after a backend has yielded text.
C2_BackendOrder ==
    /\ ~api_key => \A i \in LogIdx : ~IsCloudPost(g_log[i]) /\ ~IsCloudResp(g_log[i])
    /\ \A i \in LogIdx :
         g_log[i].ev = "tags_get" =>
           /\ IF api_key THEN i > 1 /\ g_log[i - 1].ev = "cloud_none" ELSE i = 1
           /\ \A k \in LogIdx : k > i => ~IsCloudPost(g_log[k])
    /\ \A i \in LogIdx :
         g_log[i].ev = "chat_post" => i > 1 /\ g_log[i - 1].ev = "tags_get"
    /\ \A i \in LogIdx :
         g_log[i].ev = "mock" =>
           /\ i > 1 /\ LocalNone(g_log[i - 1])
           /\ api_key => \E k \in 1..(i - 1) : g_log[k].ev = "cloud_none"
    /\ \A i \in LogIdx : YieldsText(g_log[i]) => i = Len(g_log) /\ g_pc = "done"
    /\ g_pc = "done" => YieldsText(g_log[Len(g_log)])

\* C2 witness: with an API key, all three backends were used in turn
C2_Witness ==
    /\ api_key
    /\ g_pc = "done"
    /\ \E i, j, k \in LogIdx :
         /\ i < j /\ j < k
         /\ IsCloudPost(g_log[i])
         /\ g_log[j].ev = "chat_post"
         /\ g_log[k].ev = "mock"

\* number of cloud requests sent so far
NumCloudPosts == Cardinality({i \in LogIdx : IsCloudPost(g_log[i])})

\* C3: a 429 at 0-based attempt a is followed by a wait of 5*(a+1) seconds
\* and then by a retry, for a < 2; a 429 at attempt 2 gives up without a
\* wait; at most 3 cloud requests are sent; a 429 on the first request and
\* a 200 with content on the second returns that content after a 5s wait.
C3_RateLimitRetry ==
    /\ NumCloudPosts <= max_retries + 1
    /\ \A i \in LogIdx :
         (IsCloudResp(g_log[i]) /\ g_log[i].outcome = "429") =>
           LET a == g_log[i].attempt IN
           IF a < 2
           THEN /\ i = Len(g_log) => g_pc = "bytez_sleep"
                /\ i < Len(g_log) =>
                     g_log[i + 1] = [ev |-> "sleep", secs |-> 5 * (a + 1)]
                /\ i + 1 = Len(g_log) => g_pc = "bytez_post"
                /\ i + 1 < Len(g_log) =>
                     /\ IsCloudPost(g_log[i + 2])
                     /\ g_log[i + 2].attempt = a + 1
           ELSE /\ i < Len(g_log)
                /\ g_log[i + 1].ev = "cloud_none"
    /\ \A i \in LogIdx :
         g_log[i].ev = "sleep" =>
           /\ i > 1 /\ IsCloudResp(g_log[i - 1]) /\ g_log[i - 1].outcome = "429"
    /\ (/\ Len(g_log) >= 5
        /\ IsCloudResp(g_log[2]) /\ g_log[2].outcome = "429"
        /\ IsCloudResp(g_log[5]) /\ g_log[5].outcome = "200"
        /\ BytezContent(g_log[5].body) # None)
         => /\ g_log[3].ev = "sleep" /\ g_log[3].secs >= 5
            /\ g_pc = "done"
            /\ g_result = g_log[5].body.text

\* C3 witness: three requests, all answered 429: waits of 5s and 10s and
\* the cloud path given up
C3_Witness ==
    /\ NumCloudPosts = 3
    /\ \E i, j \in LogIdx :
         /\ i < j
         /\ g_log[i] = [ev |-> "sleep", secs |-> 5]
         /\ g_log[j] = [ev |-> "sleep", secs |-> 10]
    /\ Len(g_log) >= 9
    /\ g_log[8].ev = "cloud_resp" /\ g_log[8].outcome = "429"
    /\ g_log[9].ev = "cloud_none"

\* C4: a cloud outcome other than 429 that yields no content is never
\* followed by another cloud request, at any attempt number.
C4_NoRetryOnFailure ==
    \A i \in LogIdx :
      (/\ IsCloudResp(g_log[i])
       /\ g_log[i].outcome # "429"
       /\ ~YieldsText(g_log[i]))
        => \A k \in LogIdx : k > i => ~IsCloudPost(g_log[k])

\* ------------------------------------------------------------------------
\* Properties of the repository documentation job
\* ------------------------------------------------------------------------
Results(j) == Job(j).file_results

\* status of the sub-record of agent a on the f-th file result of job j
SubStatus(j, f, a) == Results(j)[f].agents[a].status

Finished(st) == st \in {"completed", "error"}

AllWellFormed(j) == \A i \in 1..Len(files[j]) : files[j][i].dict

\* <<file index, agent>> occurs in the invocation history of job j
WasInvoked(j, f, a) == \E k \in 1..Len(invoked[j]) : invoked[j][k] = <<f, a>>

\* C5: when exactly one agent invocation of a job raised and the task has
\* ended, the job is completed, that sub-record is error with the exception
\* text, the later agents of that file were invoked, and every other
\* sub-record of every file is completed.
C5_OneAgentFailureIsolated ==
    \A j \in Registered :
      (pc[j] = "done" /\ AllWellFormed(j) /\ Cardinality(thrown[j]) = 1) =>
        /\ Job(j).status = "completed"
        /\ Len(Results(j)) = Len(files[j])
        /\ \A t \in thrown[j] :
             /\ SubStatus(j, t[1] + 1, t[2]) = "error"
             /\ Results(j)[t[1] + 1].agents[t[2]].error = t[3]
             /\ \A k \in 1..Len(agents) : WasInvoked(j, t[1], agents[k])
             /\ \A f \in 1..Len(Results(j)) : \A a \in AgentNames :
                  <<f - 1, a>> # <<t[1], t[2]>> =>
                     SubStatus(j, f, a) = "completed"

\* C5 witness: a finished 3-file job whose only failure is the Writer of
\* the second file
C5_Witness ==
    /\ 1 \in Registered
    /\ pc[1] = "done"
    /\ Len(files[1]) = 3
    /\ \E e \in ErrTexts : thrown[1] = {<<1, "writer", e>>}
    /\ Job(1).status = "completed"
    /\ SubStatus(1, 2, "diagram") = "completed"

\* C6: a sub-record only moves pending -> running -> completed | error, and
\* the sub-record of agent k+1 becomes running only when that of agent k is
\* completed or error.
C6_SubRecordStep(j) ==
    /\ \A f \in 1..Len(Results(j)') : \A k \in 1..Len(agents) :
         LET new == (Results(j)')[f].agents[agents[k]].status
             old == IF f <= Len(Results(j))
                    THEN SubStatus(j, f, agents[k]) ELSE "pending"
         IN  /\ f > Len(Results(j)) => new = "pending"
             /\ new # old =>
                  \/ old = "pending" /\ new = "running"
                  \/ old = "running" /\ Finished(new)
             /\ (new = "running" /\ old # "running" /\ k > 1) =>
                  Finished(SubStatus(j, f, agents[k - 1]))
    /\ Len(Results(j)') >= Len(Results(j))

C6_AgentOrder ==
    [][\A j \in Registered : j \in DOMAIN active_doc_jobs' => C6_SubRecordStep(j)]_vars

\* C6 witness: the Diagram sub-record is running after an earlier agent of
\* the same file ended in error
C6_Witness ==
    /\ 1 \in Registered
    /\ \E f \in 1..Len(Results(1)) :
         /\ SubStatus(1, f, "diagram") = "running"
         /\ SubStatus(1, f, "verifier") = "error"
         /\ SubStatus(1, f, "reader") = "completed"

\* C7: the job status only moves starting -> processing -> completed or
\* starting -> processing -> error; completed and error are never left.
StatusMoves ==
    { <<"starting", "processing">>, <<"processing", "completed">>,
      <<"processing", "error">> }

Running(j) ==
    {<<f, a>> \in (1..Len(Results(j))) \X AgentNames :
        SubStatus(j, f, a) = "running"}

\* run_agent calls of job j that have not returned or raised yet
InFlight(j) ==
    Len(invoked[j])
      - Cardinality({<<f, a>> \in (1..Len(Results(j))) \X AgentNames :
                        Finished(SubStatus(j, f, a))})

\* C10: file results are created in index order, the next one only after
\* the previous file is completed; at most one sub-record of a job is
\* running and at most one run_agent call is outstanding.
C10_SequentialFiles ==
    \A j \in Registered :
      /\ Len(Results(j)) <= Len(files[j])
      /\ \A f \in 1..Len(Results(j)) :
           /\ Results(j)[f].path = files[j][f].path
           /\ f < Len(Results(j)) => Results(j)[f].status = "completed"
      /\ Cardinality(Running(j)) <= 1
      /\ InFlight(j) \in {0, 1}

\* C10 witness: the third file's Reader call is outstanding, the first two
\* files are completed
C10_Witness ==
    /\ 1 \in Registered
    /\ Len(Results(1)) = 3
    /\ Running(1) = {<<3, "reader">>}
    /\ InFlight(1) = 1
    /\ Results(1)[2].status = "completed"

\* ------------------------------------------------------------------------
\* Properties of the agents (SpecAgents, SpecAgentPair)
\* ------------------------------------------------------------------------
AgentDone == a_pc \in {"done", "done2"}

\* a returned value has the shape of the agent's declared schema
Conforms(agent, v) == v.kind = "dict" /\ SchemaKeys(agent) \subseteq v.keys

\* C11: no agent raises, whatever text the model answered with (a JSON
\* array, string or number, an object whose mermaid_code is not a string);
\* every call returns a record.
C11_AgentsNeverRaise ==
    AgentDone => a_out.raised = "" /\ a_out.value.kind = "dict"

\* C12: every record an agent returns has the keys of that agent's
\* declared schema, for every model response and for the mock response
\* produced when both backends fail.
C12_SchemaConformance ==
    (AgentDone /\ a_out.raised = "") => Conforms(a_agent, a_out.value)

BothDefaulted ==
    /\ a_pc = "done2"
    /\ a_out.raised = "" /\ ~a_out.extracted
    /\ b_out.raised = "" /\ ~b_out.extracted

AnsweredCode == extract_json(a_response).value.code

\* C14: every record generate_diagram returns has a mermaid_code that
\* validates: the cleaned code is returned only if it validates, else the
\* once-repaired code only if it validates, else the fixed fallback.
C14_DiagramAlwaysValid ==
    (AgentDone /\ a_agent = "diagram" /\ a_out.raised = "") =>
      /\ a_out.value.code_type = "str"
      /\ validate_mermaid_syntax(a_out.value.code).ok
      /\ a_out.path \in {"cleaned", "repaired", "fallback"}
      /\ a_out.path = "cleaned" =>
           a_out.value.code = clean_mermaid_code(AnsweredCode)
      /\ a_out.path = "repaired" =>
           /\ ~validate_mermaid_syntax(clean_mermaid_code(AnsweredCode)).ok
           /\ \E r \in Reasons :
                a_out.value.code =
                  attempt_mermaid_repair(clean_mermaid_code(AnsweredCode), r)
      /\ a_out.path = "fallback" => a_out.value = fallback_diagram
      /\ validate_mermaid_syntax(FallbackCode).ok

\* C14 witness: the answered code has no diagram keyword and a dangling
\* arrow; the repaired code is returned
C14_Witness ==
    /\ a_pc = "done" /\ a_agent = "diagram"
    /\ a_out.path = "repaired"
    /\ a_out.value.code = <<"flowchart", " ", "TD", NL, "A", " ", "-->", " ", "B">>

\* ------------------------------------------------------------------------
\* Properties of the single-snippet pipeline (SpecPipeline)
\* ------------------------------------------------------------------------

\* C15: generate_documentation always returns status completed with
\* schema-valid stage records, never a failure status.
C15_AlwaysCompleted ==
    p_at = "done" =>
      /\ p_status = "completed"
      /\ \A a \in AgentNames : Conforms(a, p_stages[a])

IsPrefix(s, t) == Len(s) <= Len(t) /\ s = SubSeq(t, 1, Len(s))

C17_RepairIdempotent ==
    m_op = "repair" =>
      attempt_mermaid_repair(m_out, m_verdict.reason) = m_out

\* C18: repair of a text that validate_mermaid_syntax accepts returns the
\* text unchanged.
C18_RepairKeepsValidText ==
    (m_op = "repair" /\ validate_mermaid_syntax(m_code).ok) => m_out = m_code

\* C19: clean_mermaid_code is idempotent: cleaning its result again
\* changes nothing.
C19_CleanIdempotent ==
    m_op = "clean" => clean_mermaid_code(m_out) = m_out

\* the lines of a text as validate and repair see them
LinesOf(code) == SplitOn(Strip(code), NL)

\* the case of C20: no diagram keyword on the first line, a dangling arrow
\* at the end of the last line
DanglingNoHeader(code) ==
    /\ Strip(code) # <<>>
    /\ ~StartsWithKeyword(LinesOf(code)[1])
    /\ DanglingArrow(LinesOf(code)[Len(LinesOf(code))])

\* the text with every line ending in a dangling arrow removed and the
\* default header prepended
HeaderAndKept(code) ==
    Strip(Join(<<DefaultHeader>>
                 \o SelectSeq(LinesOf(code), LAMBDA l : ~DanglingArrow(l)),
               NL))

Balanced(code) ==
    /\ Count(code, "(") = Count(code, ")")
    /\ Count(code, "[") = Count(code, "]")
    /\ Count(code, "{") = Count(code, "}")

\* C20 as stated: for such a text validate reports an unbalanced (or
\* dangling) failure and repair returns the text without its dangling
\* lines, under the default header.
C20_DanglingReported ==
    (m_op = "repair" /\ DanglingNoHeader(m_code)) =>
      /\ validate_mermaid_syntax(m_code).reason
           \in {ReasonParen, ReasonSquare, ReasonCurly}
      /\ m_out = HeaderAndKept(m_code)

\* C20 amended: for such a text validate fails with the reason
\* "Unrecognized diagram type in first line" (it has no check for dangling
\* arrows), and, when the brackets of the text are balanced, repair
\* returns the text without its dangling lines, under the default header.
C20_DanglingRepaired ==
    (m_op = "repair" /\ DanglingNoHeader(m_code)) =>
      /\ validate_mermaid_syntax(m_code) = [ok |-> FALSE, reason |-> ReasonType]
      /\ Balanced(m_code) => m_out = HeaderAndKept(m_code)

\* C20 witness: the two lines 'B --> C' and 'C -->'
C20_Witness ==
    /\ m_op = "repair"
    /\ m_code = <<"B", " ", "-->", " ", "C", NL, "C", " ", "-->">>
    /\ m_out = <<"flowchart", " ", "TD", NL, "B", " ", "-->", " ", "C">>

\* ------------------------------------------------------------------------
\* Repository job: section assembly
\* ------------------------------------------------------------------------
\* C21: assemble_sections is called at most once per job and exactly once
\* for a completed job; the call gets the full list of total_files file
\* results, every one completed and in input order; a job in error has no
\* such call, and a failed call (empty section list) leaves the job
\* completed.
C21_AssembleOnce ==
    \A j \in Registered :
        LET job == Job(j)
            calls == assembled[j]
        IN  /\ Len(calls) <= 1
            /\ job.status = "completed" => Len(calls) = 1
            /\ job.status = "error" => calls = <<>>
            /\ calls = <<>> => job.sections = "unset"
            /\ \A k \in 1..Len(calls) :
                 /\ job.status = "completed"
                 /\ job.sections \in {"assembled", "empty"}
                 /\ calls[k] = job.file_results
                 /\ Len(calls[k]) = job.total_files
                 /\ Len(calls[k]) = Len(files[j])
                 /\ \A i \in 1..Len(calls[k]) :
                      /\ calls[k][i].status = "completed"
                      /\ calls[k][i].path = files[j][i].path

\* C21 witness: a completed job of MaxFiles files whose section assembly
\* failed
C21_Witness ==
    \E j \in Registered :
        /\ Job(j).status = "completed"
        /\ Job(j).sections = "empty"
        /\ Job(j).total_files = MaxFiles
        /\ Len(assembled[j]) = 1
        /\ thrown[j] # {}

\* ------------------------------------------------------------------------
\* BytezAgent: the mock response and the message list
\* ------------------------------------------------------------------------
\* the message list reduced to its last user-role message
LastUserOnly(msgs) ==
    LET users == {i \in 1..Len(msgs) : msgs[i].role = "user"}
    IN  IF users = {} THEN <<>>
        ELSE <<msgs[CHOOSE i \in users : \A k \in users : k <= i]>>

\* C22: the mock text generate returns is a function of the last user
\* message alone: it is the mock text of the list that holds only that
\* message, whatever messages come before it.
C22_MockFromLastUser ==
    (g_pc = "done" /\ g_log[Len(g_log)].ev = "mock") =>
        g_result = mock_response(LastUserOnly(messages))

\* ------------------------------------------------------------------------
\* Repository jobs running concurrently
\* ------------------------------------------------------------------------
\* positions of a task between the creation of a file result and its end
InFile ==
    {"bcast_file", "agent_begin", "bcast_running", "invoke", "in_agent",
     "bcast_agent", "file_end"}

\* the status a job has when only its own task writes it
OwnStatus(j) ==
    CASE pc[j] = "start" -> "starting"
      [] pc[j] \in {"persist", "bcast_completed"} -> "completed"
      [] pc[j] = "bcast_error" -> "error"
      [] pc[j] = "done" -> IF exc[j] = "" THEN "completed" ELSE "error"
      [] OTHER -> "processing"

\* the registry entry of job j is what j's own task made it: status,
\* counters and file results follow from the position and history of the
\* task of j alone, and the file results are those of j's files
OwnView(j) ==
    LET job == Job(j)
        fr == job.file_results
    IN  /\ job.status = OwnStatus(j)
        /\ job.total_files = Len(files[j])
        /\ Len(fr) = file_idx[j] + (IF pc[j] \in InFile THEN 1 ELSE 0)
        /\ job.files_completed =
             IF job.status = "completed" THEN job.total_files
             ELSE IF fr = <<>> THEN 0 ELSE Len(fr) - 1
        /\ \A i \in 1..Len(fr) :
             /\ fr[i].path = files[j][i].path
             /\ fr[i].path[1] = j
             /\ \A a \in AgentNames :
                  LET rec == fr[i].agents[a]
                  IN  /\ rec.status = "error" <=>
                           \E e \in ErrTexts : <<i - 1, a, e>> \in thrown[j]
                      /\ rec.status = "completed" =>
                           /\ rec.output = [by |-> a, of |-> fr[i].path]
                           /\ <<i - 1, a>> \in Range(invoked[j])
                      /\ rec.status = "running" =>
                           /\ i - 1 = file_idx[j]
                           /\ a = agents[agent_idx[j]]
                           /\ pc[j] \in {"bcast_running", "invoke", "in_agent"}
                      /\ rec.status = "pending" =>
                           <<i - 1, a>> \notin Range(invoked[j])

\* a step that is not a step of the task of job j leaves the registry entry
\* of j and everything the task of j holds as it was
NoInterference ==
    \A j \in JobIds :
        pc'[j] = pc[j] =>
            /\ (j \in Registered) <=> (j \in DOMAIN active_doc_jobs')
            /\ j \in Registered => active_doc_jobs'[j] = active_doc_jobs[j]
            /\ files'[j] = files[j]
            /\ file_idx'[j] = file_idx[j]
            /\ agent_idx'[j] = agent_idx[j]
            /\ agent_outputs'[j] = agent_outputs[j]
            /\ exc'[j] = exc[j]
            /\ thrown'[j] = thrown[j]
            /\ invoked'[j] = invoked[j]
            /\ events'[j] = events[j]
            /\ assembled'[j] = assembled[j]

\* C23: with several jobs processed concurrently, under every interleaving
\* of their tasks, a step of one task changes nothing of another job, and
\* the status, counters and file results of every job are those its own
\* task produces; a job's file results hold only its own files.
C23_JobsIndependent ==
    /\ [](\A j \in Registered : OwnView(j))
    /\ [][NoInterference]_vars

\* C23 witness: both tasks are suspended in an agent call, at different
\* agents, and only job 1 has had a failing agent
C23_Witness ==
    /\ pc[1] = "in_agent"
    /\ pc[2] = "in_agent"
    /\ agent_idx[1] # agent_idx[2]
    /\ thrown[1] # {}
    /\ thrown[2] = {}

\* ------------------------------------------------------------------------
\* Status query of an unknown job
\* ------------------------------------------------------------------------
\* C24: a step of get_job_status adds no entry to the registry; only a job
\* that is in the registry is answered without asking the store, and a job
\* the store has no document for is answered 404.
C24_UnknownJobNotFound ==
    [][ /\ q_pc' # q_pc => active_doc_jobs' = active_doc_jobs
        /\ (q_pc = "idle" /\ q_pc' = "replied") => q_job' \in Registered
        /\ (q_pc = "find" /\ q_pc' = "replied"
              /\ q_job \notin repo_documentation) => q_reply' = NotFound
      ]_vars

\* C24 witness: while job 1 is being processed, a query for job 2, which is
\* neither in the registry nor in the store, has been answered 404
C24_Witness ==
    /\ q_pc = "replied"
    /\ q_job = 2
    /\ q_reply = NotFound
    /\ 2 \notin Registered
    /\ 2 \notin repo_documentation
    /\ 1 \in Registered
    /\ Job(1).status = "processing"

\* ------------------------------------------------------------------------
\* Repository job: no retry, event order, final state
\* ------------------------------------------------------------------------
\* the slot after <<file index, agent>> in the order of the nested loops
NextSlot(slot) ==
    LET k == CHOOSE n \in 1..Len(agents) : agents[n] = slot[2]
    IN  IF k < Len(agents) THEN <<slot[1], agents[k + 1]>>
        ELSE <<slot[1] + 1, agents[1]>>

\* a sub-record of job j that has reached completed or error keeps its
\* status, error text and output in the step
TerminalStays(j) ==
    \A i \in 1..Len(Job(j).file_results) : \A a \in AgentNames :
        Job(j).file_results[i].agents[a].status \in {"completed", "error"} =>
            /\ j \in DOMAIN active_doc_jobs'
            /\ Len(active_doc_jobs'[j].file_results) >= i
            /\ active_doc_jobs'[j].file_results[i].agents[a] =
                   Job(j).file_results[i].agents[a]

\* C25: no (file, agent) pair of a job is invoked twice, each invocation
\* after the first is that of the next agent in the loop order, also after
\* an error, and a sub-record that is completed or error never changes
\* again.
C25_NoRetry ==
    /\ [](\A j \in JobIds :
            /\ \A k, m \in 1..Len(invoked[j]) :
                   invoked[j][k] = invoked[j][m] => k = m
            /\ \A k \in 1..(Len(invoked[j]) - 1) :
                   invoked[j][k + 1] = NextSlot(invoked[j][k]))
    /\ [][\A j \in Registered : TerminalStays(j)]_vars

\* C25 witness: the Reader of the first file failed and the job went on to
\* invoke every agent of every one of its MaxFiles files
C25_Witness ==
    \E j \in Registered :
        /\ Len(invoked[j]) = Len(agents) * MaxFiles
        /\ Job(j).file_results[1].agents["reader"].status = "error"
        /\ Job(j).status = "completed"

\* the agent-progress events of job j, in the order of their broadcast
AgentEvents(j) ==
    SelectSeq(events[j], LAMBDA e : e.type = "repo_doc_agent_progress")

\* the sub-record an agent-progress event is about
EventRec(j, e) == Job(j).file_results[e.file_index + 1].agents[e.agent]

\* number of sub-records of job j that are no longer pending
Begun(j) ==
    Cardinality({<<i, a>> \in (1..Len(Job(j).file_results)) \X AgentNames :
                    Job(j).file_results[i].agents[a].status # "pending"})

\* C26: the agent events of a job alternate running, completed-or-error,
\* pair by pair in loop order; the running event of a pair is broadcast
\* when its sub-record is no longer pending and before run_agent is called;
\* the closing event carries the final status of the sub-record; and a
\* sub-record is set to running only after the closing event of the pair
\* before it.
C26_EventOrder ==
    \A j \in Registered :
        LET ev == AgentEvents(j)
            n == Len(ev)
        IN  /\ \A k \in 1..n :
                 /\ ev[k].file_index + 1 <= Len(Job(j).file_results)
                 /\ IF k % 2 = 1
                    THEN /\ ev[k].status = "running"
                         /\ EventRec(j, ev[k]).status # "pending"
                         /\ k > 1 =>
                              <<ev[k].file_index, ev[k].agent>> =
                                NextSlot(<<ev[k - 1].file_index, ev[k - 1].agent>>)
                    ELSE /\ ev[k].status \in {"completed", "error"}
                         /\ ev[k].status = EventRec(j, ev[k]).status
                         /\ ev[k].file_index = ev[k - 1].file_index
                         /\ ev[k].agent = ev[k - 1].agent
            \* every call of run_agent comes after the running event of
            \* its pair, and before the running event of the next pair
            /\ Len(invoked[j]) <= (n + 1) \div 2
            /\ (n + 1) \div 2 <= Len(invoked[j]) + 1
            /\ \A k \in 1..Len(invoked[j]) :
                 invoked[j][k] = <<ev[2 * k - 1].file_index, ev[2 * k - 1].agent>>
            \* a sub-record leaves pending only after the closing event of
            \* the pair before it
            /\ Begun(j) <= n \div 2 + 1
            /\ (n + 1) \div 2 <= Begun(j)

\* C26 witness: the Searcher's error event of the second file has been
\* broadcast and the Writer's sub-record is running, its running event not
\* yet broadcast
C26_Witness ==
    \E j \in Registered :
        LET ev == AgentEvents(j)
        IN  /\ ev # <<>>
            /\ ev[Len(ev)] = [type |-> "repo_doc_agent_progress",
                              file_index |-> 1, agent |-> "searcher",
                              status |-> "error"]
            /\ Job(j).file_results[2].agents["writer"].status = "running"
            /\ pc[j] = "bcast_running"

\* ------------------------------------------------------------------------
\* BytezAgent: the guard of the local chat request
\* ------------------------------------------------------------------------
\* the probe logged at position i was answered 200 and lists a model whose
\* name is, or contains, the local model name
ProbeAllows(i, name) ==
    /\ g_log[i].probe = "ok"
    /\ \E n \in g_log[i].installed : n = <<name>> \/ Contains(n, <<name>>)

\* C27: a local chat request is sent only right after a probe that was
\* answered 200 and lists the resolved model; after any other probe no
\* chat request follows, the local path yields nothing and the next step of
\* generate is the mock.
C27_LocalChatGuard ==
    LET name == resolve_ollama_model(model_id)
    IN  \A i \in 1..Len(g_log) :
            /\ g_log[i].ev = "chat_post" =>
                 /\ i > 1
                 /\ g_log[i - 1].ev = "tags_get"
                 /\ ProbeAllows(i - 1, name)
                 /\ g_log[i].model = name
            /\ (g_log[i].ev = "tags_get" /\ ~ProbeAllows(i, name)) =>
                 IF i = Len(g_log)
                 THEN g_pc = "mock" /\ g_result = None
                 ELSE /\ i + 1 = Len(g_log)
                      /\ g_log[i + 1].ev = "mock"
                      /\ g_pc = "done"

\* C27 witness: the probe was answered 200 but lists only another model;
\* generate returned the mock
C27_Witness ==
    /\ g_pc = "done"
    /\ \E i \in 1..Len(g_log) :
         /\ g_log[i].ev = "tags_get"
         /\ g_log[i].probe = "ok"
         /\ g_log[i].installed = {<<"mistral:7b">>}
         /\ g_log[Len(g_log)].ev = "mock"

\* ------------------------------------------------------------------------
\* Single-snippet job: cancellation
\* ------------------------------------------------------------------------
\* C28: the status becomes cancelled only from queued or processing, and a
\* cancel request answered while the job is completed, failed or cancelled
\* is answered with an error and leaves the record as it is, whatever the
\* background task did since the handler read the status.
C28_CancelOnlyActive ==
    [][ /\ (s_job'.status = "cancelled" /\ s_job.status # "cancelled") =>
             s_job.status \in {"queued", "processing"}
        /\ (c_pc # "replied" /\ c_pc' = "replied"
              /\ s_job.status \in {"completed", "failed", "cancelled"}) =>
             (c_reply' = 400 /\ s_job' = s_job)
      ]_vars

\* C29: once the status is cancelled it stays cancelled: no step of the
\* background task sets it to processing, completed or failed.
C29_CancelledIsTerminal ==
    [][s_job.status = "cancelled" => s_job'.status = "cancelled"]_vars

\* C30: the counters of a job never exceed total_files; a completed job has
\* files_completed = total_files, progress 100 (10000 hundredths), one file
\* result per input file in input order, every file result completed and
\* every agent sub-record completed or error.
C30_CompletedJobShape ==
    \A j \in Registered :
        LET job == Job(j)
            fr == job.file_results
        IN  /\ job.files_completed <= job.total_files
            /\ Len(fr) <= job.total_files
            /\ job.status = "completed" =>
                 /\ job.files_completed = job.total_files
                 /\ job.progress = 10000
                 /\ Len(fr) = job.total_files
                 /\ Len(fr) = Len(files[j])
                 /\ \A i \in 1..Len(fr) :
                      /\ fr[i].path = files[j][i].path
                      /\ fr[i].status = "completed"
                      /\ \A a \in AgentNames :
                           fr[i].agents[a].status \in {"completed", "error"}

\* C30 witness: a completed job of MaxFiles files, the Diagram agent of its
\* last file in error and the Reader of its first file in error
C30_Witness ==
    \E j \in Registered :
        /\ Job(j).status = "completed"
        /\ Job(j).total_files = MaxFiles
        /\ Job(j).file_results[MaxFiles].agents["diagram"].status = "error"
        /\ Job(j).file_results[1].agents["reader"].status = "error"

====
